---- MODULE Spec2Model ----
(***************************************************************************)
(* BlueMind financial dashboard: the reconciliation and calculation core.  *)
(*                                                                         *)
(* Text (names, date cells, number cells) is a sequence of one-character   *)
(* strings, so that trimming, pattern matching and parsing are computed    *)
(* character by character the way the TypeScript does.  Numbers are exact  *)
(* rationals [n, d] in lowest terms (IEEE rounding is not modelled).       *)
(* Instants (JavaScript Date values) are whole hours since                 *)
(* 1970-01-01T00:00Z; tz is the offset of local time from UTC in hours.    *)
(* Of a row only the fields the calculations read are kept (names, dates,  *)
(* service code, hours, amounts); descriptive fields are left out.         *)
(***************************************************************************)
EXTENDS Integers, Sequences, FiniteSets, TLC

VARIABLES
    tz,           \* local time = UTC + tz hours (the browser's time zone)
    phase,        \* position of useFileReader.loadData / useDataProcessor
    billingData,  \* ProcessedBillingData being built, then published
    payrollData,  \* ProcessedPayrollData being built, then published
    bundle,       \* what useDataProcessor's useMemo returned
    probe,        \* a date cell handed to the date-window predicates
    loads         \* useFileReader's isLoading and the loadData calls in flight

vars == <<tz, phase, billingData, payrollData, bundle, probe, loads>>

\* useFileReader's state after useState(true), before any loadData call is
\* tracked: the specifications that follow one load at a time leave it alone.
NoLoads == [isLoading |-> TRUE]

----------------------------------------------------------------------------
(* Bounds of the model *)

MaxBillingRows == 2

MaxPayrollRows == 2

----------------------------------------------------------------------------
(* Characters and text *)

DigitChars == <<"0","1","2","3","4","5","6","7","8","9">>

UpperChars == <<"A","B","C","D","E","F","G","H","I","J","K","L","M",
                "N","O","P","Q","R","S","T","U","V","W","X","Y","Z">>

LowerChars == <<"a","b","c","d","e","f","g","h","i","j","k","l","m",
                "n","o","p","q","r","s","t","u","v","w","x","y","z">>

Range(s) == {s[i] : i \in DOMAIN s}

IsDigit(c) == c \in Range(DigitChars)

IsUpper(c) == c \in Range(UpperChars)

IsLetter(c) == c \in Range(UpperChars) \cup Range(LowerChars)

\* \s of a regular expression
IsSpace(c) == c \in {" ", "\t", "\n", "\r"}

\* \w of a regular expression
IsWordChar(c) == IsLetter(c) \/ IsDigit(c) \/ c = "_"

DigitVal(c) == (CHOOSE i \in 1..10 : DigitChars[i] = c) - 1

LowerOf(c) == IF IsUpper(c) THEN LowerChars[CHOOSE i \in 1..26 : UpperChars[i] = c] ELSE c

toLowerCase(s) == [i \in 1..Len(s) |-> LowerOf(s[i])]

Slice(s, from, to) == IF from > to THEN <<>> ELSE SubSeq(s, from, to)

RECURSIVE trimStart(_)
trimStart(s) == IF s # <<>> /\ IsSpace(Head(s)) THEN trimStart(Tail(s)) ELSE s

RECURSIVE trimEnd(_)
trimEnd(s) == IF s # <<>> /\ IsSpace(s[Len(s)]) THEN trimEnd(Slice(s, 1, Len(s) - 1)) ELSE s

trim(s) == trimEnd(trimStart(s))

startsWith(s, p) == Len(p) <= Len(s) /\ Slice(s, 1, Len(p)) = p

endsWith(s, p) == Len(p) <= Len(s) /\ Slice(s, Len(s) - Len(p) + 1, Len(s)) = p

includes(s, p) == \E i \in 1..(Len(s) - Len(p) + 1) : Slice(s, i, i + Len(p) - 1) = p

\* s.replace(/c/g, '')
RemoveChar(s, c) == SelectSeq(s, LAMBDA x : x # c)

\* s.replace(/\s+/g, ' ')
RECURSIVE CollapseSpaces(_)
CollapseSpaces(s) ==
    IF s = <<>> THEN <<>>
    ELSE IF IsSpace(Head(s)) THEN <<" ">> \o CollapseSpaces(trimStart(s))
    ELSE <<Head(s)>> \o CollapseSpaces(Tail(s))

\* s.split(c)
RECURSIVE Split(_, _)
Split(s, c) ==
    IF \A i \in DOMAIN s : s[i] # c THEN <<s>>
    ELSE LET k == CHOOSE i \in DOMAIN s : s[i] = c /\ \A j \in 1..(i - 1) : s[j] # c
         IN  <<Slice(s, 1, k - 1)>> \o Split(Slice(s, k + 1, Len(s)), c)

AllDigits(s) == \A i \in DOMAIN s : IsDigit(s[i])

\* the longest prefix of digits
RECURSIVE DigitPrefix(_)
DigitPrefix(s) == IF s # <<>> /\ IsDigit(Head(s)) THEN <<Head(s)>> \o DigitPrefix(Tail(s)) ELSE <<>>

RECURSIVE DigitsToNat(_)
DigitsToNat(s) == IF s = <<>> THEN 0 ELSE DigitsToNat(Slice(s, 1, Len(s) - 1)) * 10 + DigitVal(s[Len(s)])

RECURSIVE NatToDigits(_)
NatToDigits(n) == IF n < 10 THEN <<DigitChars[n + 1]>> ELSE NatToDigits(n \div 10) \o <<DigitChars[(n % 10) + 1]>>

RECURSIVE Pow10(_)
Pow10(k) == IF k = 0 THEN 1 ELSE 10 * Pow10(k - 1)

----------------------------------------------------------------------------
(* Numbers: exact rationals *)

Abs(x) == IF x < 0 THEN -x ELSE x

RECURSIVE GCD(_, _)
GCD(a, b) == IF b = 0 THEN a ELSE GCD(b, a % b)

Rat(num, den) ==
    LET g == GCD(Abs(num), Abs(den))
        s == IF den < 0 THEN -1 ELSE 1
    IN  [n |-> s * (num \div g), d |-> s * (den \div g)]

Num(i) == [n |-> i, d |-> 1]

Zero == Num(0)

RatAdd(a, b) ==
    LET g == GCD(a.d, b.d)
    IN  Rat(a.n * (b.d \div g) + b.n * (a.d \div g), (a.d \div g) * b.d)

RatNeg(a) == [n |-> -a.n, d |-> a.d]

RatSub(a, b) == RatAdd(a, RatNeg(b))

RatMul(a, b) ==
    LET g1 == GCD(Abs(a.n), b.d)
        g2 == GCD(Abs(b.n), a.d)
    IN  IF a.n = 0 \/ b.n = 0 THEN Zero
        ELSE Rat((a.n \div g1) * (b.n \div g2), (a.d \div g2) * (b.d \div g1))

\* a / b for b # 0 (every division of the engine is guarded)
RatDiv(a, b) == RatMul(a, Rat(b.d, b.n))

RatLt(a, b) == RatSub(a, b).n < 0

RatLe(a, b) == RatSub(a, b).n <= 0

RatGt(a, b) == RatLt(b, a)

RatGe(a, b) == RatLe(b, a)

RatMax(a, b) == IF RatGe(a, b) THEN a ELSE b

Hundred == Num(100)

\* the sum of a sequence of numbers, left to right from 0
RECURSIVE Sum(_)
Sum(s) == IF s = <<>> THEN Zero ELSE RatAdd(Sum(Slice(s, 1, Len(s) - 1)), s[Len(s)])

\* lodash sumBy / Array.reduce((sum, x) => sum + f(x), 0)
SumBy(s, f(_)) == Sum([i \in DOMAIN s |-> f(s[i])])

----------------------------------------------------------------------------
(* Number cells *)

NaN == [nan |-> TRUE, v |-> Zero]

Finite(r) == [nan |-> FALSE, v |-> r]

\* the number Infinity: the rational 1/0 (its negation is -Infinity)
Infinity == [n |-> 1, d |-> 0]

\* Number.isFinite of a number that is not NaN
IsFiniteNumber(r) == r.d # 0

\* JavaScript parseFloat: leading white space, a sign, then the Infinity
\* literal or digits, a point, digits; anything after that is ignored.
\* (Exponents do not occur in the cells of the model.)
parseFloat(s) ==
    LET t == trimStart(s)
        neg == t # <<>> /\ Head(t) = "-"
        u == IF t # <<>> /\ Head(t) \in {"-", "+"} THEN Tail(t) ELSE t
        ip == DigitPrefix(u)
        rest == Slice(u, Len(ip) + 1, Len(u))
        fp == IF rest # <<>> /\ Head(rest) = "." THEN DigitPrefix(Tail(rest)) ELSE <<>>
        mag == IF startsWith(u, <<"I","n","f","i","n","i","t","y">>) THEN Infinity
               ELSE Rat(DigitsToNat(ip) * Pow10(Len(fp)) + DigitsToNat(fp), Pow10(Len(fp)))
    IN  IF ip = <<>> /\ fp = <<>> /\ ~startsWith(u, <<"I","n","f","i","n","i","t","y">>) THEN NaN
        ELSE Finite(IF neg THEN RatNeg(mag) ELSE mag)

\* the digits after the decimal point of rem/den, shortest form
RECURSIVE FractionDigits(_, _, _)
FractionDigits(rem, den, left) ==
    IF rem = 0 \/ left = 0 THEN <<>>
    ELSE <<DigitChars[((rem * 10) \div den) + 1]>> \o FractionDigits((rem * 10) % den, den, left - 1)

\* String(x) of a finite number
FiniteToString(r, a) ==
    (IF r.n < 0 THEN <<"-">> ELSE <<>>) \o NatToDigits(a \div r.d)
        \o (IF FractionDigits(a % r.d, r.d, 6) = <<>> THEN <<>>
            ELSE <<".">> \o FractionDigits(a % r.d, r.d, 6))

\* String(x) of a number
NumberToString(r) ==
    IF IsFiniteNumber(r) THEN FiniteToString(r, Abs(r.n))
    ELSE (IF r.n < 0 THEN <<"-">> ELSE <<>>) \o <<"I","n","f","i","n","i","t","y">>

\* A cell is a number or text
NumCell(r) == [isText |-> FALSE, num |-> r, text |-> <<>>]

TextCell(s) == [isText |-> TRUE, num |-> Zero, text |-> s]

\* !value
Falsy(cell) == IF cell.isText THEN cell.text = <<>> ELSE cell.num = Zero

\* String(value)
CellToString(cell) == IF cell.isText THEN cell.text ELSE NumberToString(cell.num)

\* -parseFloat(x) || 0
NegOrZero(p) == IF p.nan THEN Zero ELSE RatNeg(p.v)

\* parseFloat(x) || 0
ValOrZero(p) == IF p.nan THEN Zero ELSE p.v

parseAccountingNumber(value) ==
    LET str == trim(CellToString(value))
    IN  IF Falsy(value) THEN Zero
        ELSE IF startsWith(str, <<"(">>) /\ endsWith(str, <<")">>)
             THEN NegOrZero(parseFloat(RemoveChar(Slice(str, 2, Len(str) - 1), ",")))
        ELSE IF startsWith(str, <<"-">>)
             THEN NegOrZero(parseFloat(RemoveChar(Slice(str, 2, Len(str)), ",")))
        ELSE ValOrZero(parseFloat(RemoveChar(str, ",")))

\* FileProcessor.parseNumber
parseNumber(value) ==
    LET cleaned == SelectSeq(trim(value.text), LAMBDA c : ~(c \in {"$", ","} \/ IsSpace(c)))
    IN  IF ~value.isText THEN value.num
        ELSE IF value.text = <<>> \/ trim(value.text) = <<>> THEN Zero
        ELSE ValOrZero(parseFloat(cleaned))

----------------------------------------------------------------------------
(* Dates *)

\* days from 1970-01-01 to the civil day y-m-d (m in 1..12, any d)
DaysFromCivil(y, m, d) ==
    LET yy == IF m <= 2 THEN y - 1 ELSE y
        era == yy \div 400
        yoe == yy - era * 400
        mp == IF m > 2 THEN m - 3 ELSE m + 9
        doy == (153 * mp + 2) \div 5 + d - 1
        doe == yoe * 365 + yoe \div 4 - yoe \div 100 + doy
    IN  era * 146097 + doe - 719468

\* new Date(year, monthIndex, day): local midnight; a month index or a day
\* out of range rolls over into the following months
LocalDate(year, monthIndex, day) ==
    (DaysFromCivil(year + (monthIndex \div 12), (monthIndex % 12) + 1, 1) + day - 1) * 24 - tz

\* new Date('YYYY-MM-DD'): a date-only ISO string is midnight UTC
UTCDate(year, month, day) == DaysFromCivil(year, month, day) * 24

\* new Date(d.getFullYear(), d.getMonth(), d.getDate()): local midnight of
\* the local calendar day of instant t
StartOfLocalDay(t) == ((t + tz) \div 24) * 24 - tz

NoDate == [valid |-> FALSE, t |-> 0]

DateAt(t) == [valid |-> TRUE, t |-> t]

Q2_BILLING_START == LocalDate(2025, 2, 31)

Q2_BILLING_END == LocalDate(2025, 5, 29)

Q2_PAYROLL_CHECK_START == LocalDate(2025, 3, 18)

Q2_PAYROLL_CHECK_END == LocalDate(2025, 6, 11)

\* the least index from which /\s*-\s*(Prior|Void|[A-Za-z\s]+).*$/ matches,
\* or 0: white space, a dash, then a letter or white space
SuffixMatchesAt(s, i) ==
    LET rest == trimStart(Slice(s, i, Len(s)))
    IN  /\ Len(rest) >= 2
        /\ rest[1] = "-"
        /\ (IsLetter(rest[2]) \/ IsSpace(rest[2]))

StripDateSuffix(s) ==
    IF \E i \in DOMAIN s : SuffixMatchesAt(s, i)
    THEN LET k == CHOOSE i \in DOMAIN s :
                    SuffixMatchesAt(s, i) /\ \A j \in 1..(i - 1) : ~SuffixMatchesAt(s, j)
         IN  Slice(s, 1, k - 1)
    ELSE s

\* /^(\d{1,2})\/(\d{1,2})\/(\d{4})$/ on the text split at "/"
slashMatch(p) ==
    /\ Len(p) = 3
    /\ \A i \in 1..3 : AllDigits(p[i])
    /\ Len(p[1]) \in 1..2 /\ Len(p[2]) \in 1..2 /\ Len(p[3]) = 4

\* /^(\d{4})-(\d{1,2})-(\d{1,2})$/ on the text split at "-"
isoMatch(p) ==
    /\ Len(p) = 3
    /\ \A i \in 1..3 : AllDigits(p[i])
    /\ Len(p[1]) = 4 /\ Len(p[2]) \in 1..2 /\ Len(p[3]) \in 1..2

\* new Date(parseInt(year), parseInt(month) - 1, parseInt(day))
DateOfParts(year, month, day) == DateAt(LocalDate(DigitsToNat(year), DigitsToNat(month) - 1, DigitsToNat(day)))

\* date-fns parseISO, for the date-time form YYYY-MM-DDTHH:MM (local time,
\* whole hours); every other text of the model is not an ISO date
parseISO(s) ==
    IF /\ Len(s) = 16 /\ s[11] = "T" /\ s[14] = ":" /\ s[5] = "-" /\ s[8] = "-"
       /\ \A i \in {1, 2, 3, 4, 6, 7, 9, 10, 12, 13, 15, 16} : IsDigit(s[i])
    THEN DateAt(LocalDate(DigitsToNat(Slice(s, 1, 4)), DigitsToNat(Slice(s, 6, 7)) - 1,
                          DigitsToNat(Slice(s, 9, 10))) + DigitsToNat(Slice(s, 12, 13)))
    ELSE NoDate

\* new Date(text) for text that none of the earlier patterns took: the
\* texts of the model that get this far are not dates (Invalid Date)
directParse(s) == NoDate

\* an Excel serial: (serial - 25569) days after the epoch, in UTC
SerialToDate(p) ==
    IF ~p.nan /\ RatGt(p.v, Num(25000)) /\ RatLt(p.v, Num(60000))
    THEN DateAt((((p.v.n - 25569 * p.v.d) * 24) \div p.v.d))
    ELSE NoDate

ExcelSerialDate(s) == SerialToDate(parseFloat(s))

\* the first of the attempts that gave a valid date, null if none did
FirstValid(attempts) ==
    IF \E i \in DOMAIN attempts : attempts[i].valid
    THEN attempts[CHOOSE i \in DOMAIN attempts :
                    attempts[i].valid /\ \A j \in 1..(i - 1) : ~attempts[j].valid]
    ELSE NoDate

\* parseFlexibleDate after the cleaning of the text
ParseCleanDate(cleanDate, sp, ip) ==
    IF slashMatch(sp) THEN DateOfParts(sp[3], sp[1], sp[2])
    ELSE IF isoMatch(ip) THEN DateOfParts(ip[1], ip[2], ip[3])
    ELSE FirstValid(<<ExcelSerialDate(cleanDate), parseISO(cleanDate), directParse(cleanDate)>>)

SplitAndParse(cleanDate) == ParseCleanDate(cleanDate, Split(cleanDate, "/"), Split(cleanDate, "-"))

parseFlexibleDate(dateString) ==
    IF dateString = <<>> THEN NoDate ELSE SplitAndParse(StripDateSuffix(trim(dateString)))

\* isValidBillingDate / isValidPayrollDate given a Date
isValidBillingDate(date) ==
    /\ date.valid
    /\ StartOfLocalDay(date.t) >= StartOfLocalDay(Q2_BILLING_START)
    /\ StartOfLocalDay(date.t) <= StartOfLocalDay(Q2_BILLING_END)

isValidPayrollDate(date) ==
    /\ date.valid
    /\ StartOfLocalDay(date.t) >= StartOfLocalDay(Q2_PAYROLL_CHECK_START)
    /\ StartOfLocalDay(date.t) <= StartOfLocalDay(Q2_PAYROLL_CHECK_END)

----------------------------------------------------------------------------
(* Business rules *)

\* PAYROLL NAME -> BILLING NAME
EMPLOYEE_NAME_MAPPING ==
    { <<<<"F","r","a","n","c","i","s",","," ","K","e","e","a","i","r","a">>, <<"F","r","a","n","c","i","s",","," ","K","e","e","a","r","i","a">>>>,
      <<<<"G","a","l","l","e","g","o","s"," ","L","a","b","r","a","d","o",","," ","M","a","r","i","t","z","a">>, <<"L","a","b","r","a","d","o",","," ","M","a","r","i","t","z","a"," ","G","a","l","l","e","g","o","s">>>>,
      <<<<"G","a","l","l","e","g","o","s"," ","L","a","b","r","a","d","o",","," ","M","a","r","i","t">>, <<"L","a","b","r","a","d","o",","," ","M","a","r","i","t","z","a"," ","G","a","l","l","e","g","o","s">>>>,
      <<<<"W","i","l","c","o","x",","," ","B","r","e","a","n","n"," ","R">>, <<"W","i","l","c","o","x",","," ","B","r","e","A","n","n">>>>,
      <<<<"C","l","e","g","g",","," ","C","h","a","r","m","i","s","h","a"," ","M">>, <<"C","l","e","g","g",","," ","C","h","a","r","m","i","s","h","a">>>>,
      <<<<"H","a","m","m","o","u","n","d",","," ","T","a","r","e","k">>, <<"H","a","m","m","o","u","d",","," ","R","i","c","k","y">>>>,
      <<<<"M","i","h","a","i",","," ","B","r","y","a","n">>, <<"M","i","h","a","i",","," ","B","r","i","a","n">>>>,
      <<<<"D","e","s","t","e","v","e","n","s",","," ","K","a","i","l","e","i","g","h">>, <<"D","e","S","t","e","v","e","n","s",","," ","K","a","i","l","e","i","g","h">>>>,
      <<<<"d","e","S","t","e","v","e","n","s",","," ","K","a","i","l","e","i","g","h">>, <<"D","e","S","t","e","v","e","n","s",","," ","K","a","i","l","e","i","g","h">>>>,
      <<<<"E","l"," ","A","r","o","u","d",","," ","M","a","r","i","a","m">>, <<"E","l","A","r","o","u","d",","," ","M","a","r","i","a","m">>>>,
      <<<<"A","l","k","h","a","l","i","d","i",","," ","Z","a","h","r","a","a"," ","J">>, <<"A","l","k","h","a","l","i","d","i",","," ","Z","a","h","r","a","a">>>>,
      <<<<"A","q","r","a","b","a","w","i",","," ","Z","a","k","i","a"," ","D">>, <<"A","q","r","a","b","a","w","i",","," ","Z","a","k","i","a">>>>,
      <<<<"M","a","z","l","o","u","m",","," ","M","o","h","a","m","d","a","l","i">>, <<"M","a","z","l","o","u","m",","," ","M","o","e">>>>,
      <<<<"S","m","i","t","h",","," ","A","n","a","i","l","y"," ","A">>, <<"S","m","i","t","h",","," ","A","n","a","i","l","y">>>> }

HR_STAFF ==
    { <<"S","e","i","f","e","d","d","i","n","e",","," ","M","a","l","a","k">>,
      <<"H","a","m","m","o","u","d",","," ","R","i","c","k","y">>,
      <<"E","l","m","o","g","h","r","a","b","i",","," ","M","a","r","i","a","m">>,
      <<"M","a","z","l","o","u","m",","," ","M","o","e">>,
      <<"K","a","r","n","i","b",","," ","M","a","l","i","k">>,
      <<"C","l","e","g","g",","," ","C","h","a","r","m","i","s","h","a">>,
      <<"H","a","n","c","o","x",","," ","M","a","r","i","a"," ","C">> }

TECH_serviceCodes == {97153}

BCBA_serviceCodes == {97155, 97156, 97151}

UTILIZATION_BENCHMARK == 90

PERFORMANCE_EXCELLENT == 90

PERFORMANCE_GOOD == 80

PERFORMANCE_NEEDS_IMPROVEMENT == 50

----------------------------------------------------------------------------
(* Employee names *)

applyExactMapping(name) ==
    IF \E m \in EMPLOYEE_NAME_MAPPING : m[1] = name
    THEN (CHOOSE m \in EMPLOYEE_NAME_MAPPING : m[1] = name)[2]
    ELSE name

\* s.replace(/,\s*/g, ', ')
RECURSIVE CommaSpacing(_)
CommaSpacing(s) ==
    IF s = <<>> THEN <<>>
    ELSE IF Head(s) = "," THEN <<",", " ">> \o CommaSpacing(trimStart(Tail(s)))
    ELSE <<Head(s)>> \o CommaSpacing(Tail(s))

normalizeName(name) ==
    IF name = <<>> THEN <<>>
    ELSE CommaSpacing(CollapseSpaces(
            SelectSeq(trim(toLowerCase(name)),
                      LAMBDA c : IsWordChar(c) \/ IsSpace(c) \/ c = ",")))

\* HR_STAFF.some(hrName => normalizeName(hrName) === normalizeName(name))
NormalizedHRStaff == {normalizeName(hrName) : hrName \in HR_STAFF}

isHRStaff(name) == normalizeName(name) \in NormalizedHRStaff

----------------------------------------------------------------------------
(* Calculation engine *)

validDatePatterns ==
    { <<"0","4","/","1","8","/","2","0","2","5">>, <<"0","4","/","2","5","/","2","0","2","5">>,
      <<"0","5","/","0","2","/","2","0","2","5">>, <<"0","5","/","0","9","/","2","0","2","5">>, <<"0","5","/","1","6","/","2","0","2","5">>, <<"0","5","/","2","3","/","2","0","2","5">>, <<"0","5","/","3","0","/","2","0","2","5">>,
      <<"0","6","/","0","6","/","2","0","2","5">>, <<"0","6","/","1","3","/","2","0","2","5">>, <<"0","6","/","2","0","/","2","0","2","5">>, <<"0","6","/","2","7","/","2","0","2","5">>,
      <<"0","7","/","0","3","/","2","0","2","5">>, <<"0","7","/","1","1","/","2","0","2","5">> }

hasVoidEntries(payrollRecords) ==
    \E i \in DOMAIN payrollRecords :
        payrollRecords[i].CheckDate # <<>> /\ includes(payrollRecords[i].CheckDate, <<"V","o","i","d">>)

\* checkDate && checkDate >= start && checkDate <= end, on instants
InInstantRange(date, start, end) == date.valid /\ date.t >= start /\ date.t <= end

\* the filter of the branch for data without Void entries
InParsedPayrollRange(record) ==
    InInstantRange(parseFlexibleDate(record.CheckDate), UTCDate(2025, 4, 18), UTCDate(2025, 7, 11))

\* the filter of the branch for data with Void entries
MatchesDatePattern(record) ==
    \E pattern \in validDatePatterns : startsWith(trim(record.CheckDate), pattern)

filterQ2PayrollRecords(payrollRecords) ==
    IF hasVoidEntries(payrollRecords)
    THEN SelectSeq(payrollRecords, MatchesDatePattern)
    ELSE SelectSeq(payrollRecords, InParsedPayrollRange)

IsHRRecord(record) == isHRStaff(record.Name)

IsBillableRecord(record) == ~isHRStaff(record.Name)

\* the partition of the rows filterQ2PayrollRecords kept
PartitionByType(q2Records) ==
    [billableRecords |-> SelectSeq(q2Records, IsBillableRecord),
     hrRecords |-> SelectSeq(q2Records, IsHRRecord)]

separatePayrollByType(payrollRecords) == PartitionByType(filterQ2PayrollRecords(payrollRecords))

InEngineBillingRange(record) ==
    InInstantRange(parseFlexibleDate(record.SessionDate), UTCDate(2025, 3, 30), UTCDate(2025, 6, 29))

HoursOf(record) == record.Hours

PriceOf(record) == record.Price

ExpensesOf(record) == parseAccountingNumber(NumCell(record.TotalExpenses))

calculateTotalBillableHours(bd) == SumBy(SelectSeq(bd.records, InEngineBillingRange), HoursOf)

\* MarginOf with the guard of the per-employee margin: -100 for a loss
\* without revenue
MarginOf_LossSentinel(profit, totalRevenue) ==
    IF RatGt(totalRevenue, Zero) THEN RatMul(RatDiv(profit, totalRevenue), Hundred)
    ELSE IF RatLt(profit, Zero) THEN Num(-100) ELSE Zero

\* profit / totalRevenue * 100, 0 without revenue
MarginOf(profit, totalRevenue) ==
    IF RatGt(totalRevenue, Zero) THEN RatMul(RatDiv(profit, totalRevenue), Hundred) ELSE Zero

\* value / by when by > 0, else 0
RatioOrZero(value, by) == IF RatGt(by, Zero) THEN RatDiv(value, by) ELSE Zero

\* the metrics of calculateFinancialMetrics from the sums it took
FinancialMetricsOf(totalRevenue, totalStaffCost, hrCost, billableStaffCost, totalBillableHours, billableStaffHours) ==
    [totalRevenue |-> totalRevenue,
     totalPayrollCost |-> totalStaffCost,
     grossProfit |-> RatSub(totalRevenue, totalStaffCost),
     profitMargin |-> MarginOf(RatSub(totalRevenue, totalStaffCost), totalRevenue),
     billableStaffCost |-> billableStaffCost,
     hrCost |-> hrCost,
     profitMarginVsBillableStaff |-> MarginOf(RatSub(totalRevenue, billableStaffCost), totalRevenue),
     netProfit |-> RatSub(totalRevenue, billableStaffCost),
     utilizationRate |-> RatMul(RatioOrZero(totalBillableHours, billableStaffHours), Hundred),
     revenuePerBillableHour |-> RatioOrZero(totalRevenue, totalBillableHours),
     nonBillableCost |-> Zero,
     comprehensiveProfit |-> RatSub(totalRevenue, totalStaffCost),
     comprehensiveProfitMargin |-> MarginOf(RatSub(totalRevenue, totalStaffCost), totalRevenue)]

\* the sums of calculateFinancialMetrics over the partition of the rows
FinancialSumsOf(bd, pd, sep) ==
    FinancialMetricsOf(bd.totalRevenue, pd.totalPayrollCost,
                       SumBy(sep.hrRecords, ExpensesOf), SumBy(sep.billableRecords, ExpensesOf),
                       calculateTotalBillableHours(bd), SumBy(sep.billableRecords, HoursOf))

calculateFinancialMetrics(bd, pd) == FinancialSumsOf(bd, pd, separatePayrollByType(pd.records))

\* codes.includes(record.Code)
CodeIn(record, codes) == \E c \in codes : record.Code = Num(c)

\* classifyEmployeeRole with a tie of the two counts going to BCBA
classifyEmployeeRole_TieBCBA(billingRecords) ==
    LET hasBCBACodes == \E i \in DOMAIN billingRecords : CodeIn(billingRecords[i], BCBA_serviceCodes)
        hasTechCodes == \E i \in DOMAIN billingRecords : CodeIn(billingRecords[i], TECH_serviceCodes)
        bcbaCodeCount == Len(SelectSeq(billingRecords, LAMBDA r : CodeIn(r, BCBA_serviceCodes)))
        techCodeCount == Len(SelectSeq(billingRecords, LAMBDA r : CodeIn(r, TECH_serviceCodes)))
    IN  IF billingRecords = <<>> THEN "TECH"
        ELSE IF hasBCBACodes /\ ~hasTechCodes THEN "BCBA"
        ELSE IF hasTechCodes /\ ~hasBCBACodes THEN "TECH"
        ELSE IF bcbaCodeCount >= techCodeCount THEN "BCBA" ELSE "TECH"

classifyEmployeeRole(billingRecords) ==
    LET hasBCBACodes == \E i \in DOMAIN billingRecords : CodeIn(billingRecords[i], BCBA_serviceCodes)
        hasTechCodes == \E i \in DOMAIN billingRecords : CodeIn(billingRecords[i], TECH_serviceCodes)
        bcbaCodeCount == Len(SelectSeq(billingRecords, LAMBDA r : CodeIn(r, BCBA_serviceCodes)))
        techCodeCount == Len(SelectSeq(billingRecords, LAMBDA r : CodeIn(r, TECH_serviceCodes)))
    IN  IF billingRecords = <<>> THEN "TECH"
        ELSE IF hasBCBACodes /\ ~hasTechCodes THEN "BCBA"
        ELSE IF hasTechCodes /\ ~hasBCBACodes THEN "TECH"
        ELSE IF bcbaCodeCount > techCodeCount THEN "BCBA" ELSE "TECH"

\* the keys of a grouping object, in insertion order
RECURSIVE Distinct(_)
Distinct(s) ==
    IF s = <<>> THEN <<>>
    ELSE LET init == Distinct(Slice(s, 1, Len(s) - 1))
         IN  IF s[Len(s)] \in Range(init) THEN init ELSE Append(init, s[Len(s)])

groupBillingByEmployee(billingRecords, employeeName) ==
    SelectSeq(billingRecords, LAMBDA r : applyExactMapping(r.TechName) = employeeName)

\* groupPayrollByEmployee keyed by the payroll spelling of the name
groupPayrollByEmployee_Unmapped(payrollRecords, employeeName) ==
    SelectSeq(payrollRecords, LAMBDA r : r.Name = employeeName)

groupPayrollByEmployee(payrollRecords, employeeName) ==
    SelectSeq(payrollRecords, LAMBDA r : applyExactMapping(r.Name) = employeeName)

\* the canonical names of both sources: billing names first
allEmployees(bd, pd) ==
    Distinct([i \in DOMAIN bd.records |-> applyExactMapping(bd.records[i].TechName)]
             \o [i \in DOMAIN pd.records |-> applyExactMapping(pd.records[i].Name)])

FirstNameOr(hits, billingName) == IF hits = <<>> THEN billingName ELSE hits[1].Name

findOriginalPayrollName(billingName, payrollRecords) ==
    FirstNameOr(groupPayrollByEmployee(payrollRecords, billingName), billingName)

getPerformanceTier(utilizationRate) ==
    IF RatGe(utilizationRate, Num(PERFORMANCE_EXCELLENT)) THEN "excellent"
    ELSE IF RatGe(utilizationRate, Num(PERFORMANCE_GOOD)) THEN "good"
    ELSE IF RatGe(utilizationRate, Num(PERFORMANCE_NEEDS_IMPROVEMENT)) THEN "needs-improvement"
    ELSE "critical"

getBCBAPerformanceTier(profitMargin) ==
    IF RatGe(profitMargin, Num(40)) THEN "excellent"
    ELSE IF RatGe(profitMargin, Num(30)) THEN "good"
    ELSE IF RatGe(profitMargin, Num(20)) THEN "needs-improvement"
    ELSE "critical"

\* NonBillableHoursOf without the floor at 0
NonBillableHoursOf_Unfloored(payrollHours, billableHours) == RatSub(payrollHours, billableHours)

\* Math.max(0, payrollHours - billableHours)
NonBillableHoursOf(payrollHours, billableHours) == RatMax(Zero, RatSub(payrollHours, billableHours))

\* EmployeeMarginOf with the guard of the aggregate margin: 0 without revenue
EmployeeMarginOf_NoSentinel(revenue, payrollCost) ==
    IF RatGt(revenue, Zero) THEN RatMul(RatDiv(RatSub(revenue, payrollCost), revenue), Hundred)
    ELSE Zero

\* the per-employee profit margin, -100 for cost without revenue
EmployeeMarginOf(revenue, payrollCost) ==
    IF RatGt(revenue, Zero) THEN RatMul(RatDiv(RatSub(revenue, payrollCost), revenue), Hundred)
    ELSE IF RatGt(payrollCost, Zero) THEN Num(-100) ELSE Zero

\* potentialRevenue of an employee
PotentialRevenueOf(role, revenue, payrollCost, billableHours, payrollHours, revenuePerHour, profitMargin) ==
    IF role = "TECH"
    THEN RatAdd(revenue,
                RatMul(RatMax(Zero, RatSub(RatDiv(RatMul(payrollHours, Num(UTILIZATION_BENCHMARK)), Hundred),
                                           billableHours)),
                       revenuePerHour))
    ELSE IF RatLt(profitMargin, Num(60)) THEN RatDiv(payrollCost, Rat(40, 100))
    ELSE revenue

\* the EmployeeMetric from the rates derived from the sums
MetricOfRates(employeeName, payrollName, isMatched, role, billableHours, revenue, payrollHours, payrollCost, utilizationRate, revenuePerHour, profitMargin) ==
    [name |-> employeeName,
     payrollName |-> payrollName,
     billingName |-> employeeName,
     utilizationRate |-> utilizationRate,
     billableHours |-> billableHours,
     payrollHours |-> payrollHours,
     nonBillableHours |-> NonBillableHoursOf(payrollHours, billableHours),
     revenue |-> revenue,
     payrollCost |-> payrollCost,
     revenuePerHour |-> revenuePerHour,
     profitMargin |-> profitMargin,
     isMatched |-> isMatched,
     performanceTier |-> IF role = "TECH" THEN getPerformanceTier(utilizationRate)
                         ELSE getBCBAPerformanceTier(profitMargin),
     potentialRevenue |-> PotentialRevenueOf(role, revenue, payrollCost, billableHours, payrollHours,
                                             revenuePerHour, profitMargin),
     isHRStaff |-> isHRStaff(employeeName),
     role |-> role]

\* the EmployeeMetric from the sums over the employee's rows
MetricOfSums(employeeName, payrollName, isMatched, role, billableHours, revenue, payrollHours, payrollCost) ==
    MetricOfRates(employeeName, payrollName, isMatched, role, billableHours, revenue, payrollHours,
                  payrollCost,
                  RatMul(RatioOrZero(billableHours, payrollHours), Hundred),
                  RatioOrZero(revenue, billableHours),
                  EmployeeMarginOf(revenue, payrollCost))

\* the EmployeeMetric from the employee's rows
MetricOfRecords(employeeName, payrollName, billingRecords, payrollRecords) ==
    MetricOfSums(employeeName, payrollName, billingRecords # <<>> /\ payrollRecords # <<>>,
                 classifyEmployeeRole(billingRecords),
                 SumBy(billingRecords, HoursOf), SumBy(billingRecords, PriceOf),
                 SumBy(payrollRecords, HoursOf), SumBy(payrollRecords, ExpensesOf))

\* the body of the loop of analyzeEmployeePerformance
EmployeeMetricOf(bd, pd, employeeName) ==
    MetricOfRecords(employeeName, findOriginalPayrollName(employeeName, pd.records),
                    groupBillingByEmployee(bd.records, employeeName),
                    groupPayrollByEmployee(pd.records, employeeName))

\* Array.prototype.sort((a, b) => b.revenue - a.revenue): stable, descending
RECURSIVE SortByRevenueDesc(_)
SortByRevenueDesc(s) ==
    IF s = <<>> THEN <<>>
    ELSE LET init == SortByRevenueDesc(Slice(s, 1, Len(s) - 1))
             x == s[Len(s)]
             k == Cardinality({i \in DOMAIN init : RatGe(init[i].revenue, x.revenue)})
         IN  Slice(init, 1, k) \o <<x>> \o Slice(init, k + 1, Len(init))

MetricsOfNames(bd, pd, names) == [i \in DOMAIN names |-> EmployeeMetricOf(bd, pd, names[i])]

analyzeEmployeePerformance(bd, pd) == SortByRevenueDesc(MetricsOfNames(bd, pd, allEmployees(bd, pd)))


\* determinePriority(currentUtilization, potentialRevenue, payrollHours)
determinePriority(currentUtilization, potentialRevenue, payrollHours) ==
    IF RatLt(currentUtilization, Num(50)) /\ RatGt(potentialRevenue, Num(5000))
           /\ RatGt(payrollHours, Num(100)) THEN "high"
    ELSE IF RatLt(currentUtilization, Num(UTILIZATION_BENCHMARK))
           \/ RatGt(potentialRevenue, Num(2500)) THEN "medium"
    ELSE "low"

\* the action items pushed under a condition
ItemsIf(condition, items) == IF condition THEN items ELSE <<>>

ItemsOrDefault(actions) ==
    IF actions = <<>> THEN <<"Maintain current performance and monitor trends">> ELSE actions

generateActionItems(employee) ==
    ItemsOrDefault(
        ItemsIf(RatLt(employee.utilizationRate, Num(50)),
                <<"URGENT: Very low utilization - immediate intervention required",
                  "Review caseload assignments and availability">>)
        \o ItemsIf(RatLt(employee.utilizationRate, Num(70)),
                <<"Increase client sessions and case assignments",
                  "Optimize scheduling to reduce downtime">>)
        \o ItemsIf(RatLt(employee.utilizationRate, Num(UTILIZATION_BENCHMARK)),
                <<"Target additional billable hours to reach 90% utilization",
                  "Review non-billable activities and time allocation">>)
        \o ItemsIf(RatGt(employee.nonBillableHours, RatMul(employee.billableHours, Rat(2, 10))),
                <<"Reduce non-billable time - focus on direct service delivery",
                  "Streamline administrative tasks and documentation">>)
        \o ItemsIf(RatLt(employee.revenuePerHour, Num(50)),
                <<"Consider higher-value service codes and client types",
                  "Review rate optimization opportunities">>))

\* IsTechWithRoom without the test against the benchmark
IsTechWithRoom_AnyUtilization(emp) ==
    /\ ~emp.isHRStaff
    /\ emp.role = "TECH"
    /\ RatGt(emp.payrollHours, Zero)

\* the filter of identifyImprovementOpportunities
IsTechWithRoom(emp) ==
    /\ ~emp.isHRStaff
    /\ emp.role = "TECH"
    /\ RatGt(emp.payrollHours, Zero)
    /\ RatLt(emp.utilizationRate, Num(UTILIZATION_BENCHMARK))

\* the OpportunityMetric pushed for an employee
OpportunityOfHours(employee, potentialAdditionalHours, potentialAdditionalRevenue) ==
    [employeeName |-> employee.name,
     currentUtilization |-> employee.utilizationRate,
     targetUtilization |-> Num(UTILIZATION_BENCHMARK),
     potentialAdditionalHours |-> potentialAdditionalHours,
     potentialAdditionalRevenue |-> potentialAdditionalRevenue,
     priority |-> determinePriority(employee.utilizationRate, potentialAdditionalRevenue,
                                    employee.payrollHours),
     actionItems |-> generateActionItems(employee)]

PotentialAdditionalHours(employee) ==
    RatSub(RatDiv(RatMul(employee.payrollHours, Num(UTILIZATION_BENCHMARK)), Hundred),
           employee.billableHours)

OpportunityOf(employee) ==
    OpportunityOfHours(employee, PotentialAdditionalHours(employee),
                       RatMul(PotentialAdditionalHours(employee), employee.revenuePerHour))

\* the forEach of identifyImprovementOpportunities
RECURSIVE OpportunitiesOf(_)
OpportunitiesOf(techEmployees) ==
    IF techEmployees = <<>> THEN <<>>
    ELSE Append(OpportunitiesOf(Slice(techEmployees, 1, Len(techEmployees) - 1)),
                OpportunityOf(techEmployees[Len(techEmployees)]))

\* SortByPotentialDesc placing an opportunity before the ones it ties with
RECURSIVE SortByPotentialDesc_TiesReversed(_)
SortByPotentialDesc_TiesReversed(s) ==
    IF s = <<>> THEN <<>>
    ELSE LET init == SortByPotentialDesc_TiesReversed(Slice(s, 1, Len(s) - 1))
             x == s[Len(s)]
             k == Cardinality({i \in DOMAIN init :
                     RatGt(init[i].potentialAdditionalRevenue, x.potentialAdditionalRevenue)})
         IN  Slice(init, 1, k) \o <<x>> \o Slice(init, k + 1, Len(init))

\* sort((a, b) => b.potentialAdditionalRevenue - a.potentialAdditionalRevenue):
\* stable, descending
RECURSIVE SortByPotentialDesc(_)
SortByPotentialDesc(s) ==
    IF s = <<>> THEN <<>>
    ELSE LET init == SortByPotentialDesc(Slice(s, 1, Len(s) - 1))
             x == s[Len(s)]
             k == Cardinality({i \in DOMAIN init :
                     RatGe(init[i].potentialAdditionalRevenue, x.potentialAdditionalRevenue)})
         IN  Slice(init, 1, k) \o <<x>> \o Slice(init, k + 1, Len(init))

identifyImprovementOpportunities(employeeMetrics) ==
    SortByPotentialDesc(OpportunitiesOf(SelectSeq(employeeMetrics, IsTechWithRoom)))
----------------------------------------------------------------------------
(* Employee matching (employeeMapping.ts) *)

\* Math.round of a rational: the nearest integer, halves upwards
MathRound(r) == (2 * r.n + r.d) \div (2 * r.d)

Min3(a, b, c) == IF a <= b /\ a <= c THEN a ELSE IF b <= c THEN b ELSE c

\* one row of the matrix of levenshteinDistance: acc holds the cells
\* already computed, prev is the row above, c the character of str2
\* (cells are numbered from 0, sequences from 1)
RECURSIVE LevRow(_, _, _, _)
LevRow(prev, str1, c, acc) ==
    IF Len(acc) = Len(str1) + 1 THEN acc
    ELSE LevRow(prev, str1, c,
                Append(acc, Min3(acc[Len(acc)] + 1,
                                 prev[Len(acc) + 1] + 1,
                                 prev[Len(acc)] + (IF str1[Len(acc)] = c THEN 0 ELSE 1))))

\* the matrix row by row; row 0 is 0 .. str1.length and cell 0 of row j is j
RECURSIVE LevMatrix(_, _, _)
LevMatrix(matrix, str1, str2) ==
    IF Len(matrix) = Len(str2) + 1 THEN matrix
    ELSE LevMatrix(Append(matrix, LevRow(matrix[Len(matrix)], str1, str2[Len(matrix)], <<Len(matrix)>>)),
                   str1, str2)

\* matrix[str2.length][str1.length]
levenshteinDistance(str1, str2) ==
    LevMatrix(<<[i \in 1..(Len(str1) + 1) |-> i - 1]>>, str1, str2)[Len(str2) + 1][Len(str1) + 1]

MaxLength(norm1, norm2) == IF Len(norm1) >= Len(norm2) THEN Len(norm1) ELSE Len(norm2)

\* Math.round((1 - distance / maxLength) * 100)
SimilarityOf(norm1, norm2) ==
    MathRound(Rat((MaxLength(norm1, norm2) - levenshteinDistance(norm1, norm2)) * 100,
                  MaxLength(norm1, norm2)))

NormSimilarity(norm1, norm2) == IF norm1 = norm2 THEN 100 ELSE SimilarityOf(norm1, norm2)

\* calculateNameSimilarity; an undefined name part is the empty text here
calculateNameSimilarity(name1, name2) ==
    IF name1 = <<>> \/ name2 = <<>> THEN 0
    ELSE NormSimilarity(normalizeName(name1), normalizeName(name2))

\* s.split(' ').filter(Boolean)
Words(s) == SelectSeq(Split(s, " "), LAMBDA w : w # <<>>)

\* the "Last, First" branch of extractNameParts
PartsOfLastFirst(last, nameParts) ==
    [first |-> IF nameParts = <<>> THEN <<>> ELSE nameParts[1],
     last |-> last,
     firstUndefined |-> FALSE]

\* the "First Last" branch of extractNameParts; without any word first and
\* last are undefined
PartsOfWords(nameParts) ==
    [first |-> IF nameParts = <<>> THEN <<>> ELSE nameParts[1],
     last |-> IF Len(nameParts) <= 1 THEN <<>> ELSE nameParts[Len(nameParts)],
     firstUndefined |-> nameParts = <<>>]

PartsOfNormalized(normalized, pieces) ==
    IF "," \in Range(normalized)
    THEN PartsOfLastFirst(trim(pieces[1]), Words(trim(pieces[2])))
    ELSE PartsOfWords(Words(normalized))

NormalizedParts(normalized) == PartsOfNormalized(normalized, Split(normalized, ","))

\* extractNameParts (the middle name is not used by the matching)
extractNameParts(fullName) == NormalizedParts(normalizeName(fullName))

\* first[0]?.toLowerCase(): the lower-cased initial, undefined (here the
\* empty text) for an empty first name
FirstInitial(first) == IF first = <<>> THEN <<>> ELSE <<LowerOf(first[1])>>

IntMax(a, b) == IF a >= b THEN a ELSE b

\* the composite confidence score of one candidate, before rounding
CompositeConfidence(exactLastMatch, firstInitialMatch, fullNameSimilarity, lastNameSimilarity, firstNameSimilarity) ==
    IF exactLastMatch /\ firstInitialMatch
    THEN RatMax(Num(85), Rat(lastNameSimilarity + firstNameSimilarity, 2))
    ELSE IF exactLastMatch THEN Num(IntMax(75, lastNameSimilarity))
    ELSE IF fullNameSimilarity >= 90 THEN Num(fullNameSimilarity)
    ELSE IF lastNameSimilarity >= 80 /\ firstNameSimilarity >= 60
         THEN Rat(lastNameSimilarity * 7 + firstNameSimilarity * 3, 10)
    ELSE Num(fullNameSimilarity)

ConfidenceOfParts(targetName, candidateName, targetParts, candidateParts) ==
    CompositeConfidence(normalizeName(targetParts.last) = normalizeName(candidateParts.last),
                        FirstInitial(targetParts.first) = FirstInitial(candidateParts.first),
                        calculateNameSimilarity(targetName, candidateName),
                        calculateNameSimilarity(targetParts.last, candidateParts.last),
                        calculateNameSimilarity(targetParts.first, candidateParts.first))

CandidateConfidence(targetName, candidateName) ==
    ConfidenceOfParts(targetName, candidateName, extractNameParts(targetName), extractNameParts(candidateName))

\* fuzzyMatches.sort((a, b) => b.confidence - a.confidence): stable
RECURSIVE SortByConfidenceDesc(_)
SortByConfidenceDesc(s) ==
    IF s = <<>> THEN <<>>
    ELSE LET init == SortByConfidenceDesc(Slice(s, 1, Len(s) - 1))
             x == s[Len(s)]
             k == Cardinality({i \in DOMAIN init : init[i].confidence >= x.confidence})
         IN  Slice(init, 1, k) \o <<x>> \o Slice(init, k + 1, Len(init))

\* fuzzyMatches.push(...) when confidence >= threshold
MatchEntry(candidateName, confidence, threshold) ==
    IF RatGe(confidence, Num(threshold))
    THEN <<[name |-> candidateName, confidence |-> MathRound(confidence)]>>
    ELSE <<>>

\* the candidates that cleared the threshold, in the order of the list
RECURSIVE FuzzyMatchesOf(_, _, _)
FuzzyMatchesOf(targetName, candidateNames, threshold) ==
    IF candidateNames = <<>> THEN <<>>
    ELSE MatchEntry(Head(candidateNames), CandidateConfidence(targetName, Head(candidateNames)), threshold)
         \o FuzzyMatchesOf(targetName, Tail(candidateNames), threshold)

\* reading [0] of an undefined first name throws a TypeError: the
\* candidates at which the loop throws
ThrowingCandidates(targetName, candidateNames) ==
    {i \in DOMAIN candidateNames :
        extractNameParts(targetName).firstUndefined \/ extractNameParts(candidateNames[i]).firstUndefined}

FirstOf(indices) == CHOOSE i \in indices : \A j \in indices : i <= j

ExactResult(exactMatch) ==
    [threw |-> FALSE, hasExactMatch |-> TRUE, exactMatch |-> exactMatch, fuzzyMatches |-> <<>>,
     confidence |-> 100, shouldAutoMatch |-> TRUE, evaluated |-> 0]

ThrownResult(evaluated) ==
    [threw |-> TRUE, hasExactMatch |-> FALSE, exactMatch |-> <<>>, fuzzyMatches |-> <<>>,
     confidence |-> 0, shouldAutoMatch |-> FALSE, evaluated |-> evaluated]

\* FuzzyResult deciding on the best confidence alone
FuzzyResult_TopOnly(fuzzyMatches, evaluated) ==
    [threw |-> FALSE, hasExactMatch |-> FALSE, exactMatch |-> <<>>, fuzzyMatches |-> fuzzyMatches,
     confidence |-> IF fuzzyMatches = <<>> THEN 0 ELSE fuzzyMatches[1].confidence,
     shouldAutoMatch |-> fuzzyMatches # <<>> /\ fuzzyMatches[1].confidence >= 95,
     evaluated |-> evaluated]

\* the result of the fuzzy path: overallConfidence >= 95 && fuzzyMatches.length === 1
FuzzyResult(fuzzyMatches, evaluated) ==
    [threw |-> FALSE, hasExactMatch |-> FALSE, exactMatch |-> <<>>, fuzzyMatches |-> fuzzyMatches,
     confidence |-> IF fuzzyMatches = <<>> THEN 0 ELSE fuzzyMatches[1].confidence,
     shouldAutoMatch |-> fuzzyMatches # <<>> /\ fuzzyMatches[1].confidence >= 95 /\ Len(fuzzyMatches) = 1,
     evaluated |-> evaluated]

\* findEmployeeMatches without the exact-mapping check
findEmployeeMatches_FuzzyOnly(targetName, candidateNames, threshold) ==
    IF ThrowingCandidates(targetName, candidateNames) # {}
    THEN ThrownResult(FirstOf(ThrowingCandidates(targetName, candidateNames)))
    ELSE FuzzyResult(SortByConfidenceDesc(FuzzyMatchesOf(targetName, candidateNames, threshold)),
                     Len(candidateNames))

\* findEmployeeMatches; evaluated counts the candidates whose similarity
\* was computed
findEmployeeMatches(targetName, candidateNames, threshold) ==
    IF applyExactMapping(targetName) # targetName THEN ExactResult(applyExactMapping(targetName))
    ELSE IF ThrowingCandidates(targetName, candidateNames) # {}
         THEN ThrownResult(FirstOf(ThrowingCandidates(targetName, candidateNames)))
    ELSE FuzzyResult(SortByConfidenceDesc(FuzzyMatchesOf(targetName, candidateNames, threshold)),
                     Len(candidateNames))

\* one billing name through the loop of validateEmployeeMatching: acc holds
\* the two sets of matched names
ValidateDirect(acc, billingName, mapped) ==
    [acc EXCEPT !.matchedBilling = @ \cup {billingName}, !.matchedPayroll = @ \cup {mapped}]

ValidateFuzzy(acc, billingName, result) ==
    IF result.threw THEN [acc EXCEPT !.threw = TRUE]
    ELSE IF result.shouldAutoMatch /\ Len(result.fuzzyMatches) > 0
         THEN [acc EXCEPT !.matchedBilling = @ \cup {billingName},
                          !.matchedPayroll = @ \cup {result.fuzzyMatches[1].name}]
    ELSE acc

ValidateName(acc, billingName, mapped, payrollNames) ==
    IF acc.threw THEN acc
    ELSE IF mapped \in Range(payrollNames) THEN ValidateDirect(acc, billingName, mapped)
    ELSE ValidateFuzzy(acc, billingName, findEmployeeMatches(mapped, payrollNames, 85))

RECURSIVE ValidateNames(_, _, _)
ValidateNames(acc, billingNames, payrollNames) ==
    IF billingNames = <<>> THEN acc
    ELSE ValidateNames(ValidateName(acc, Head(billingNames), applyExactMapping(Head(billingNames)), payrollNames),
                       Tail(billingNames), payrollNames)

NotIn(names, matched) == SelectSeq(names, LAMBDA name : name \notin matched)

MatchingRateOf(totalMatched, totalUnique) ==
    IF totalUnique > 0 THEN MathRound(Rat(totalMatched * 100, totalUnique)) ELSE 0

ValidationOf(acc, billingNames, payrollNames) ==
    [threw |-> acc.threw,
     totalBillingEmployees |-> Len(billingNames),
     totalPayrollEmployees |-> Len(payrollNames),
     matchedEmployees |-> Cardinality(acc.matchedBilling),
     unmatchedBilling |-> NotIn(billingNames, acc.matchedBilling),
     unmatchedPayroll |-> NotIn(payrollNames, acc.matchedPayroll),
     matchingRate |-> MatchingRateOf(Cardinality(acc.matchedBilling),
                                     Cardinality(Range(billingNames) \cup Range(payrollNames)))]

validateEmployeeMatching(billingNames, payrollNames) ==
    ValidationOf(ValidateNames([threw |-> FALSE, matchedBilling |-> {}, matchedPayroll |-> {}],
                               billingNames, payrollNames),
                 billingNames, payrollNames)

----------------------------------------------------------------------------
(* calculateUtilizationMetrics, the data validators and useDataProcessor *)

TECH_hourlyRate == 19

\* the UtilizationMetrics from the hours calculateUtilizationMetrics summed
UtilizationOfRate(techBillableHours, totalPayrollHours, hrHours, nonBillableHours, utilizationRate) ==
    [utilizationRate |-> utilizationRate,
     billableHours |-> techBillableHours,
     totalPayrollHours |-> totalPayrollHours,
     nonBillableHours |-> nonBillableHours,
     hrHours |-> hrHours,
     benchmark |-> Num(UTILIZATION_BENCHMARK),
     performanceVsBenchmark |-> RatSub(utilizationRate, Num(UTILIZATION_BENCHMARK)),
     costOfNonBillableTime |-> RatMul(nonBillableHours, Num(TECH_hourlyRate)),
     averageUtilizationRate |-> utilizationRate,
     averageProfitMargin |-> Zero]

UtilizationOfHours(techBillableHours, totalPayrollHours, hrHours) ==
    UtilizationOfRate(techBillableHours, totalPayrollHours, hrHours,
                      RatMax(Zero, RatSub(totalPayrollHours, techBillableHours)),
                      RatMul(RatioOrZero(techBillableHours, totalPayrollHours), Hundred))

UtilizationOfRecords(bd, sep) ==
    UtilizationOfHours(calculateTotalBillableHours(bd), SumBy(sep.billableRecords, HoursOf),
                       SumBy(sep.hrRecords, HoursOf))

\* calculateUtilizationMetrics(billingData, payrollData), as useDataProcessor
\* calls it: without the employee metrics
calculateUtilizationMetrics(bd, pd) == UtilizationOfRecords(bd, separatePayrollByType(pd.records))

\* validateBillingData: the record raises no error
BillingRecordValid(record) ==
    /\ trim(record.TechName) # <<>>
    /\ record.SessionDate # <<>>
    /\ parseFlexibleDate(record.SessionDate).valid
    /\ RatGe(record.Hours, Zero)
    /\ RatGe(record.Price, Zero)

\* validatePayrollData: the record raises no error
PayrollRecordValid(record) ==
    /\ trim(record.Name) # <<>>
    /\ record.CheckDate # <<>>
    /\ parseFlexibleDate(record.CheckDate).valid
    /\ RatGe(record.Hours, Zero)
    /\ RatGe(record.TotalExpenses, Zero)

\* 1 for a check that pushed an entry, 0 otherwise
Pushed(condition) == IF condition THEN 1 ELSE 0

\* the errors validateBillingData pushes for a record
BillingErrorsOf(record) ==
    Pushed(trim(record.TechName) = <<>>)
    + Pushed(record.SessionDate = <<>> \/ ~parseFlexibleDate(record.SessionDate).valid)
    + Pushed(RatLt(record.Hours, Zero))
    + Pushed(RatLt(record.Price, Zero))

\* the warnings validateBillingData pushes for a record (the columns the
\* records of the model do not carry raise none)
BillingWarningsOf(record) ==
    Pushed(/\ record.SessionDate # <<>>
           /\ parseFlexibleDate(record.SessionDate).valid
           /\ ~isValidBillingDate(parseFlexibleDate(record.SessionDate)))
    + Pushed(RatGt(record.Hours, Num(24)))

\* the errors validatePayrollData pushes for a record
PayrollErrorsOf(record) ==
    Pushed(trim(record.Name) = <<>>)
    + Pushed(record.CheckDate = <<>> \/ ~parseFlexibleDate(record.CheckDate).valid)
    + Pushed(RatLt(record.Hours, Zero))
    + Pushed(RatLt(record.TotalExpenses, Zero))

\* the warnings validatePayrollData pushes for a record
PayrollWarningsOf(record) ==
    Pushed(/\ record.CheckDate # <<>>
           /\ parseFlexibleDate(record.CheckDate).valid
           /\ ~isValidPayrollDate(parseFlexibleDate(record.CheckDate)))
    + Pushed(RatGt(record.Hours, Num(80)))

\* a validation result: the lengths of validRecords, errors and warnings,
\* and invalidRecords
ValidationResult(validRecords, invalidRecords, errors, warnings) ==
    [validRecords |-> validRecords, invalidRecords |-> invalidRecords,
     errors |-> errors, warnings |-> warnings]

RECURSIVE validateBillingData(_)
validateBillingData(records) ==
    IF records = <<>> THEN ValidationResult(0, 0, 0, 0)
    ELSE ValidationResult(
           validateBillingData(Tail(records)).validRecords + Pushed(BillingRecordValid(Head(records))),
           validateBillingData(Tail(records)).invalidRecords + Pushed(~BillingRecordValid(Head(records))),
           validateBillingData(Tail(records)).errors + BillingErrorsOf(Head(records)),
           validateBillingData(Tail(records)).warnings + BillingWarningsOf(Head(records)))

RECURSIVE validatePayrollData(_)
validatePayrollData(records) ==
    IF records = <<>> THEN ValidationResult(0, 0, 0, 0)
    ELSE ValidationResult(
           validatePayrollData(Tail(records)).validRecords + Pushed(PayrollRecordValid(Head(records))),
           validatePayrollData(Tail(records)).invalidRecords + Pushed(~PayrollRecordValid(Head(records))),
           validatePayrollData(Tail(records)).errors + PayrollErrorsOf(Head(records)),
           validatePayrollData(Tail(records)).warnings + PayrollWarningsOf(Head(records)))

\* validRecords.length / (validRecords.length + invalidRecords) * 100
QualityOf(valid, total) == IF total > 0 THEN Rat(valid * 100, total) ELSE Zero

\* the issue pushed for a non-empty list of errors or warnings
IssueIf(count, type, category, impact) ==
    IF count > 0
    THEN <<[type |-> type, category |-> category, count |-> count, impact |-> impact]>>
    ELSE <<>>

\* MatchingIssue with the impact high for every rate below 90
MatchingIssue_AlwaysHigh(employeeMatchingRate) ==
    IF RatLt(employeeMatchingRate, Num(90))
    THEN <<[type |-> "warning", category |-> "matching", count |-> 1, impact |-> "high"]>>
    ELSE <<>>

\* the issue pushed for a low matching rate
MatchingIssue(employeeMatchingRate) ==
    IF RatLt(employeeMatchingRate, Num(90))
    THEN <<[type |-> "warning", category |-> "matching", count |-> 1,
            impact |-> IF RatLt(employeeMatchingRate, Num(70)) THEN "high" ELSE "medium"]>>
    ELSE <<>>

IssuesOf(billingValidation, payrollValidation, employeeMatchingRate) ==
    IssueIf(billingValidation.errors, "error", "billing", "high")
    \o IssueIf(billingValidation.warnings, "warning", "billing", "medium")
    \o IssueIf(payrollValidation.errors, "error", "payroll", "high")
    \o IssueIf(payrollValidation.warnings, "warning", "payroll", "medium")
    \o MatchingIssue(employeeMatchingRate)

\* the object calculateDataQuality returns
DataQualityOf(billingQuality, payrollQuality, employeeMatchingRate, issues) ==
    [billingDataQuality |-> MathRound(billingQuality),
     payrollDataQuality |-> MathRound(payrollQuality),
     employeeMatchingRate |-> MathRound(employeeMatchingRate),
     overallScore |-> MathRound(RatDiv(RatAdd(RatAdd(billingQuality, payrollQuality),
                                              employeeMatchingRate), Num(3))),
     issues |-> issues]

calculateDataQuality(billingValidation, payrollValidation, employeeMatchingRate) ==
    DataQualityOf(QualityOf(billingValidation.validRecords,
                            billingValidation.validRecords + billingValidation.invalidRecords),
                  QualityOf(payrollValidation.validRecords,
                            payrollValidation.validRecords + payrollValidation.invalidRecords),
                  employeeMatchingRate,
                  IssuesOf(billingValidation, payrollValidation, employeeMatchingRate))

\* the unmatched employees of both sources, billing first
UnmatchedOf(names, source) == [i \in DOMAIN names |-> [name |-> names[i], source |-> source]]

\* what useDataProcessor returns while a data set is missing and after its
\* computation threw: no metrics, empty lists
NoBundle == [computed |-> FALSE]

\* the object the try block of useDataProcessor returns (validationResults,
\* which compares the metrics with the expected results, and lastUpdated
\* are left out)
BundleOf(financialMetrics, utilizationMetrics, employeeMetrics, matchingValidation, dataQuality) ==
    [computed |-> TRUE,
     financialMetrics |-> financialMetrics,
     utilizationMetrics |-> utilizationMetrics,
     employeeMetrics |-> employeeMetrics,
     topOpportunities |-> identifyImprovementOpportunities(employeeMetrics),
     unmatchedEmployees |-> UnmatchedOf(matchingValidation.unmatchedBilling, "billing")
                            \o UnmatchedOf(matchingValidation.unmatchedPayroll, "payroll"),
     dataQuality |-> dataQuality,
     dashboardData |-> [financialMetrics |-> financialMetrics,
                        utilizationMetrics |-> utilizationMetrics,
                        dataQuality |-> dataQuality]]

\* the try block with the result of validateEmployeeMatching: a TypeError
\* thrown by the matching goes to the catch block
BundleOfMatching(bd, pd, matchingValidation) ==
    IF matchingValidation.threw THEN NoBundle
    ELSE BundleOf(calculateFinancialMetrics(bd, pd), calculateUtilizationMetrics(bd, pd),
                  analyzeEmployeePerformance(bd, pd), matchingValidation,
                  calculateDataQuality(validateBillingData(bd.records), validatePayrollData(pd.records),
                                       Num(matchingValidation.matchingRate)))

\* the data a hook holds before setBillingData / setPayrollData: null
NullData == [isNull |-> TRUE]

\* the useMemo of useDataProcessor
processedData(bd, pd) ==
    IF bd = NullData \/ pd = NullData THEN NoBundle
    ELSE BundleOfMatching(bd, pd, validateEmployeeMatching(bd.uniqueEmployees, pd.uniqueEmployees))

----------------------------------------------------------------------------
(* The files: the rows the billing CSV and the payroll sheet may hold *)

BillingRow(name, date, code, hours, price) ==
    [TechName |-> name, SessionDate |-> date, Code |-> code, Hours |-> hours, Price |-> price]

PayrollRow(name, date, hours, expenses) ==
    [Name |-> name, CheckDate |-> date, Hours |-> hours, TotalExpenses |-> expenses]

BillingCsvRows ==
    { BillingRow(<<"S","m","i","t","h",","," ","J","o","h","n">>, <<"2","0","2","5","-","0","4","-","1","5">>, <<"9","7","1","5","3">>, <<"1","0","0">>, <<"5","0","0","0">>),
      BillingRow(<<"S","m","i","t","h",","," ","J","o","h","n">>, <<"6","/","2","9","/","2","0","2","5">>, <<"9","7","1","5","3">>, <<"1","2","0">>, <<"$","6",",","0","0","0",".","0","0">>),
      BillingRow(<<"D","o","e",","," ","J","a","n","e">>, <<"3","/","3","1","/","2","0","2","5">>, <<"9","7","1","5","5">>, <<"9","0">>, <<"4","5","0","0">>),
      BillingRow(<<"D","o","e",","," ","J","a","n","e">>, <<"3","/","3","0","/","2","0","2","5">>, <<"9","7","1","5","5">>, <<"8">>, <<"4","0","0">>),
      BillingRow(<<"D","o","e",","," ","J","a","n","e">>, <<"n","o","t"," ","a"," ","d","a","t","e">>, <<"9","7","1","5","5">>, <<"8">>, <<"4","0","0">>),
      BillingRow(<<"D","o","e",","," ","J","a","n","e">>, <<"4","/","1","5","/","2","0","2","5">>, <<"9","7","1","5","5">>, <<>>, <<"4","0","0">>) }

PayrollSheetRows ==
    { PayrollRow(<<"S","m","i","t","h",","," ","J","o","h","n">>, <<"2","0","2","5","-","0","4","-","2","5">>, NumCell(Num(120)), NumCell(Num(3000))),
      PayrollRow(<<"S","m","i","t","h",","," ","J","o","h","n">>, <<"7","/","1","1","/","2","0","2","5">>, TextCell(<<"1","0","0",".","0","0">>), TextCell(<<"3",",","0","0","0",".","0","0">>)),
      PayrollRow(<<"D","o","e",","," ","J","a","n","e">>, <<"0","4","/","1","8","/","2","0","2","5">>, TextCell(<<"1","0","0",".","0","0">>), TextCell(<<"3",",","1","2","5",".","0","0">>)),
      PayrollRow(<<"S","e","i","f","e","d","d","i","n","e",","," ","M","a","l","a","k">>, <<"4","/","2","5","/","2","0","2","5">>, TextCell(<<"8","0",".","0","0">>), TextCell(<<"2",",","0","0","0",".","0","0">>)),
      PayrollRow(<<"W","i","l","c","o","x",","," ","B","r","e","a","n","n"," ","R">>, <<"0","5","/","0","2","/","2","0","2","5"," "," ","-"," ","V","o","i","d">>, TextCell(<<"(","4","0",".","0","0",")">>), TextCell(<<"(","1",",","6","8","3",".","9","4",")">>)),
      PayrollRow(<<"D","o","e",","," ","J","a","n","e">>, <<"4","/","1","7","/","2","0","2","5">>, TextCell(<<"4","0",".","0","0">>), TextCell(<<"1",",","0","0","0",".","0","0">>)),
      PayrollRow(<<"D","o","e",","," ","J","a","n","e">>, <<"7","/","1","2","/","2","0","2","5">>, TextCell(<<"4","0",".","0","0">>), TextCell(<<"1",",","0","0","0",".","0","0">>)),
      PayrollRow(<<"G","r","a","n","d"," ","T","o","t","a","l">>, <<>>, TextCell(<<"3","6","0",".","0","0">>), TextCell(<<"9",",","4","4","1",".","0","6">>)) }

\* the browser's offset from UTC, in hours
TZOffsets == {-5, 0, 3}

----------------------------------------------------------------------------
(* FileProcessor *)

emptyBillingResult ==
    [records |-> <<>>, totalRevenue |-> Zero, totalBillableHours |-> Zero,
     uniqueEmployees |-> <<>>, errors |-> 0]

emptyPayrollResult ==
    [records |-> <<>>, totalPayrollCost |-> Zero, totalPayrollHours |-> Zero,
     uniqueEmployees |-> <<>>]

\* !row[field] || row[field].trim() === '' for one of the required fields
MissingRequiredField(row) ==
    \E f \in {row.TechName, row.SessionDate, row.Hours, row.Price} : f = <<>> \/ trim(f) = <<>>

\* validateBillingRecord throws: a required field is missing or the date
\* does not parse
BillingRowInvalid(row) == MissingRequiredField(row) \/ ~parseFlexibleDate(row.SessionDate).valid

validateBillingRecord(row) ==
    [TechName |-> row.TechName,
     SessionDate |-> row.SessionDate,
     Code |-> parseNumber(TextCell(row.Code)),
     Hours |-> parseNumber(TextCell(row.Hours)),
     Price |-> parseNumber(TextCell(row.Price))]

\* the filter of step 5 of processPayrollExcel
PayrollNameAccepted(row) ==
    /\ row.Name # <<>>
    /\ trim(row.Name) # <<>>
    /\ ~includes(toLowerCase(row.Name), <<"t","o","t","a","l">>)
    /\ ~includes(toLowerCase(row.Name), <<"g","r","a","n","d"," ","t","o","t","a","l">>)

\* the map of step 5 of processPayrollExcel
cleanPayrollRow(row) ==
    [Name |-> trim(row.Name),
     CheckDate |-> CollapseSpaces(trim(row.CheckDate)),
     Hours |-> parseAccountingNumber(row.Hours),
     TotalExpenses |-> parseAccountingNumber(row.TotalExpenses)]

----------------------------------------------------------------------------
(* useFileReader: the values published when a file cannot be loaded *)

mockBillingData ==
    [records |-> <<>>,
     totalRevenue |-> Rat(72347165, 100),
     totalBillableHours |-> Rat(1081478, 100),
     uniqueEmployees |-> << <<"F","r","a","n","c","i","s",","," ","K","e","e","a","r","i","a">>, <<"L","a","b","r","a","d","o",","," ","M","a","r","i","t","z","a"," ","G","a","l","l","e","g","o","s">>, <<"W","i","l","c","o","x",","," ","B","r","e","A","n","n">>,
                            <<"S","m","i","t","h",","," ","J","o","h","n">>, <<"J","o","h","n","s","o","n",","," ","M","a","r","y">>, <<"D","a","v","i","s",","," ","R","o","b","e","r","t">>,
                            <<"W","i","l","s","o","n",","," ","L","i","s","a">>, <<"B","r","o","w","n",","," ","M","i","c","h","a","e","l">> >>,
     errors |-> 0]

mockPayrollData ==
    [records |-> <<>>,
     totalPayrollCost |-> Rat(39949911, 100),
     totalPayrollHours |-> Rat(1169507, 100),
     uniqueEmployees |-> << <<"F","r","a","n","c","i","s",","," ","K","e","e","a","r","i","a">>, <<"L","a","b","r","a","d","o",","," ","M","a","r","i","t","z","a"," ","G","a","l","l","e","g","o","s">>, <<"W","i","l","c","o","x",","," ","B","r","e","A","n","n">>,
                            <<"S","m","i","t","h",","," ","J","o","h","n">>, <<"J","o","h","n","s","o","n",","," ","M","a","r","y">>, <<"D","a","v","i","s",","," ","R","o","b","e","r","t">>,
                            <<"W","i","l","s","o","n",","," ","L","i","s","a">>, <<"B","r","o","w","n",","," ","M","i","c","h","a","e","l">>, <<"S","e","i","f","e","d","d","i","n","e",","," ","M","a","l","a","k">> >>]

----------------------------------------------------------------------------
(* The pipeline: load the billing file, load the payroll file, compute *)

NoProbe == [asked |-> FALSE]

Init ==
    /\ tz \in TZOffsets
    /\ phase = "billing"
    /\ billingData = emptyBillingResult
    /\ payrollData = emptyPayrollResult
    /\ bundle = NoBundle
    /\ probe = NoProbe
    /\ loads = NoLoads

\* validRecords.push(billingRecord) and the two running totals
PushBillingRecord(result, billingRecord) ==
    [result EXCEPT
        !.records = Append(@, billingRecord),
        !.totalRevenue = RatAdd(@, billingRecord.Price),
        !.totalBillableHours = RatAdd(@, billingRecord.Hours)]

\* the body of the loop for a row validateBillingRecord accepted
FilterBillingRecord(result, billingRecord) ==
    IF isValidBillingDate(parseFlexibleDate(billingRecord.SessionDate))
    THEN PushBillingRecord(result, billingRecord)
    ELSE result

\* one iteration of results.data.forEach in processBillingCsv
ProcessBillingRow(row) ==
    /\ phase = "billing"
    /\ Len(billingData.records) + billingData.errors < MaxBillingRows
    /\ billingData' =
         IF BillingRowInvalid(row)
         THEN [billingData EXCEPT !.errors = @ + 1]
         ELSE FilterBillingRecord(billingData, validateBillingRecord(row))
    /\ UNCHANGED <<tz, phase, payrollData, bundle, probe, loads>>

\* processBillingCsv resolves and loadData publishes the billing data
BillingLoaded ==
    /\ phase = "billing"
    /\ billingData' = [billingData EXCEPT
         !.uniqueEmployees = Distinct([i \in DOMAIN billingData.records |-> billingData.records[i].TechName])]
    /\ phase' = "payroll"
    /\ UNCHANGED <<tz, payrollData, bundle, probe, loads>>

\* validRecords.push(payrollRecord) and the two running totals
PushPayrollRecord(result, payrollRecord) ==
    [result EXCEPT
        !.records = Append(@, payrollRecord),
        !.totalPayrollCost = RatAdd(@, parseAccountingNumber(NumCell(payrollRecord.TotalExpenses))),
        !.totalPayrollHours = RatAdd(@, payrollRecord.Hours)]

\* step 6 of processPayrollExcel for one cleaned row
FilterPayrollRecord(result, payrollRecord) ==
    IF isValidPayrollDate(parseFlexibleDate(payrollRecord.CheckDate))
    THEN PushPayrollRecord(result, payrollRecord)
    ELSE result

\* one row of the sheet through steps 5 and 6 of processPayrollExcel
ProcessPayrollRow(row) ==
    /\ phase = "payroll"
    /\ Len(payrollData.records) < MaxPayrollRows
    /\ payrollData' =
         IF PayrollNameAccepted(row)
         THEN FilterPayrollRecord(payrollData, cleanPayrollRow(row))
         ELSE payrollData
    /\ UNCHANGED <<tz, phase, billingData, bundle, probe, loads>>

\* processPayrollExcel returns and loadData publishes the payroll data
PayrollLoaded ==
    /\ phase = "payroll"
    /\ payrollData' = [payrollData EXCEPT
         !.uniqueEmployees = Distinct([i \in DOMAIN payrollData.records |-> payrollData.records[i].Name])]
    /\ phase' = "loaded"
    /\ UNCHANGED <<tz, billingData, bundle, probe, loads>>

\* a file could not be loaded: loadData publishes the expected values
LoadFailed ==
    /\ phase \in {"billing", "payroll"}
    /\ billingData' = mockBillingData
    /\ payrollData' = mockPayrollData
    /\ phase' = "loaded"
    /\ UNCHANGED <<tz, bundle, probe, loads>>

\* the useMemo of useDataProcessor, once both data sets are published
ProcessData ==
    /\ phase = "loaded"
    /\ bundle' = processedData(billingData, payrollData)
    /\ phase' = "done"
    /\ UNCHANGED <<tz, billingData, payrollData, probe, loads>>

Next ==
    \/ \E row \in BillingCsvRows : ProcessBillingRow(row)
    \/ BillingLoaded
    \/ \E row \in PayrollSheetRows : ProcessPayrollRow(row)
    \/ PayrollLoaded
    \/ LoadFailed
    \/ ProcessData

Spec == Init /\ [][Next]_vars

----------------------------------------------------------------------------
(* The date-window predicates on their own: a date cell or a Date object   *)
(* is handed to isValidPayrollDate and isValidBillingDate                  *)

DateCellTexts ==
    { <<"4","/","1","7","/","2","0","2","5">>, <<"4","/","1","8","/","2","0","2","5">>, <<"0","4","/","1","8","/","2","0","2","5">>, <<"2","0","2","5","-","0","4","-","1","8">>, <<"2","0","2","5","-","4","-","1","7">>,
      <<"7","/","1","1","/","2","0","2","5">>, <<"0","7","/","1","1","/","2","0","2","5"," ","-"," ","V","o","i","d">>, <<"2","0","2","5","-","0","7","-","1","1">>, <<"7","/","1","2","/","2","0","2","5">>, <<"2","0","2","5","-","0","7","-","1","2"," ","-"," ","P","r","i","o","r">>,
      <<"3","/","3","0","/","2","0","2","5">>, <<"3","/","3","1","/","2","0","2","5">>, <<"2","0","2","5","-","0","3","-","3","1">>, <<"6","/","2","9","/","2","0","2","5">>, <<"2","0","2","5","-","0","6","-","2","9">>, <<"6","/","3","0","/","2","0","2","5">>,
      <<"5","/","1","5","/","2","0","2","5">>, <<" ","0","5","/","1","5","/","2","0","2","5"," ">>, <<"2","0","2","5","-","0","7","-","1","1","T","1","0",":","0","0">>, <<"2","0","2","5","-","0","7","-","1","2","T","0","1",":","0","0">>,
      <<"4","5","7","6","4">>, <<"4","5","7","6","5">>, <<"4","5","8","4","9">>, <<"4","5","8","5","0">>, <<"4","5","7","4","6">>, <<"4","5","7","4","7">>,
      <<"n","o","t"," ","a"," ","d","a","t","e">>, <<>>, <<"Q","2">>, <<"-","-">> }

\* year, month, day of the Date objects handed in
ProbeDays ==
    { <<2025, 3, 30>>, <<2025, 3, 31>>, <<2025, 4, 17>>, <<2025, 4, 18>>, <<2025, 5, 15>>,
      <<2025, 6, 29>>, <<2025, 6, 30>>, <<2025, 7, 11>>, <<2025, 7, 12>>, <<2024, 5, 15>> }

\* their local hour of the day
ProbeHours == {0, 10, 23}

InitDates ==
    /\ tz \in TZOffsets
    /\ phase = "dates"
    /\ billingData = emptyBillingResult
    /\ payrollData = emptyPayrollResult
    /\ bundle = NoBundle
    /\ probe = NoProbe
    /\ loads = NoLoads

ProbeResult(isText, text, day, hour, date) ==
    [asked |-> TRUE, isText |-> isText, text |-> text, day |-> day, hour |-> hour,
     parsed |-> date.valid,
     payroll |-> isValidPayrollDate(date),
     billing |-> isValidBillingDate(date)]

\* isValidPayrollDate(text), isValidBillingDate(text)
CheckDateText(text) ==
    /\ phase = "dates"
    /\ probe' = ProbeResult(TRUE, text, <<0, 0, 0>>, 0, parseFlexibleDate(text))
    /\ UNCHANGED <<tz, phase, billingData, payrollData, bundle, loads>>

\* isValidPayrollDate(date), isValidBillingDate(date) for the Date object
\* new Date(year, month - 1, day, hour)
CheckDateObject(day, hour) ==
    /\ phase = "dates"
    /\ probe' = ProbeResult(FALSE, <<>>, day, hour, DateAt(LocalDate(day[1], day[2] - 1, day[3]) + hour))
    /\ UNCHANGED <<tz, phase, billingData, payrollData, bundle, loads>>

NextDates ==
    \/ \E text \in DateCellTexts : CheckDateText(text)
    \/ \E day \in ProbeDays, hour \in ProbeHours : CheckDateObject(day, hour)

SpecDates == InitDates /\ [][NextDates]_vars

----------------------------------------------------------------------------
(* What the requirements say, for the properties below *)

\* the maximal runs of digits of a text, left to right
RECURSIVE DigitRuns(_)
DigitRuns(s) ==
    IF s = <<>> THEN <<>>
    ELSE IF IsDigit(Head(s))
         THEN <<DigitPrefix(s)>> \o DigitRuns(Slice(s, Len(DigitPrefix(s)) + 1, Len(s)))
    ELSE DigitRuns(Tail(s))

\* the day number (days since 1970-01-01) of the calendar day a date cell
\* names, as a set: year-month-day, month/day/year or a spreadsheet serial;
\* empty for a text that names no day
DayOfRuns(runs) ==
    IF Len(runs) >= 3 /\ Len(runs[1]) = 4
    THEN {DaysFromCivil(DigitsToNat(runs[1]), DigitsToNat(runs[2]), DigitsToNat(runs[3]))}
    ELSE IF Len(runs) >= 3 /\ Len(runs[3]) = 4
    THEN {DaysFromCivil(DigitsToNat(runs[3]), DigitsToNat(runs[1]), DigitsToNat(runs[2]))}
    ELSE IF Len(runs) = 1 /\ Len(runs[1]) = 5
    THEN {DigitsToNat(runs[1]) - 25569}
    ELSE {}

CalendarDayOfText(text) == DayOfRuns(DigitRuns(text))

PayrollWindowDays == DaysFromCivil(2025, 4, 18) .. DaysFromCivil(2025, 7, 11)

BillingWindowDays == DaysFromCivil(2025, 3, 31) .. DaysFromCivil(2025, 6, 29)

InPayrollWindow(record) == CalendarDayOfText(record.CheckDate) \cap PayrollWindowDays # {}

InBillingWindow(record) == CalendarDayOfText(record.SessionDate) \cap BillingWindowDays # {}

IsHRRow(record) == isHRStaff(record.Name)

IsStaffRow(record) == ~isHRStaff(record.Name)

\* the payroll rows of the window, all staff / HR staff / the others
WindowPayroll == SelectSeq(payrollData.records, InPayrollWindow)

WindowHR == SelectSeq(WindowPayroll, IsHRRow)

WindowStaff == SelectSeq(WindowPayroll, IsStaffRow)

WindowBilling == SelectSeq(billingData.records, InBillingWindow)

\* the hours and cost of billable staff as the engine partitions them
EngineStaffHours == SumBy(separatePayrollByType(payrollData.records).billableRecords, HoursOf)

NonHRMetrics == SelectSeq(bundle.employeeMetrics, LAMBDA m : ~m.isHRStaff)

NonBillableHoursOfMetric(m) == RatMax(Zero, RatSub(m.payrollHours, m.billableHours))

\* non-billable hours of the non-HR employees times the average hourly rate
ExpectedNonBillableCost ==
    RatMul(SumBy(NonHRMetrics, NonBillableHoursOfMetric),
           RatioOrZero(bundle.financialMetrics.billableStaffCost, EngineStaffHours))

FromFiles == payrollData # mockPayrollData

----------------------------------------------------------------------------
(* Properties *)

FM == bundle.financialMetrics

\* C1: nonBillableCost is the non-billable hours of the non-HR employees
\* (max(0, payrollHours - billableHours) each) times the average hourly rate
\* billableStaffCost / billableStaffHours, 0 without billable-staff hours
C1_NonBillableCostFormula ==
    bundle.computed => FM.nonBillableCost = ExpectedNonBillableCost

\* C2: with revenue, comprehensiveProfitMargin is
\* (totalRevenue - billableStaffCost - nonBillableCost) / totalRevenue * 100
C2_ComprehensiveMarginFormula ==
    (bundle.computed /\ RatGt(FM.totalRevenue, Zero)) =>
        FM.comprehensiveProfitMargin =
            RatMul(RatDiv(RatSub(RatSub(FM.totalRevenue, FM.billableStaffCost), ExpectedNonBillableCost),
                          FM.totalRevenue),
                   Hundred)

\* C3: the rows of HR staff in the payroll window make up hrCost and count in
\* totalPayrollCost, the rows of the other staff make up billableStaffCost
\* (so netProfit) and the denominator of utilizationRate, and neither kind
\* counts on the other side
C3_HRPartition ==
    (bundle.computed /\ FromFiles) =>
        /\ FM.hrCost = SumBy(WindowHR, ExpensesOf)
        /\ FM.billableStaffCost = SumBy(WindowStaff, ExpensesOf)
        /\ FM.totalPayrollCost = RatAdd(SumBy(WindowHR, ExpensesOf), SumBy(WindowStaff, ExpensesOf))
        /\ FM.netProfit = RatSub(FM.totalRevenue, SumBy(WindowStaff, ExpensesOf))
        /\ FM.utilizationRate =
             RatMul(RatioOrZero(calculateTotalBillableHours(billingData), SumBy(WindowStaff, HoursOf)),
                    Hundred)

\* C4: utilizationRate is the billed hours of the billing window over the
\* payroll hours of the non-HR staff of the payroll window, times 100; 0 when
\* there are no such payroll hours; never clamped
C4_UtilizationFormula ==
    bundle.computed =>
        FM.utilizationRate =
            RatMul(RatioOrZero(SumBy(WindowBilling, HoursOf), SumBy(WindowStaff, HoursOf)), Hundred)

\* C5: without revenue both profit margins are 0, whatever the payroll cost
C5_ZeroRevenueZeroMargin ==
    (bundle.computed /\ FM.totalRevenue = Zero) =>
        (FM.profitMargin = Zero /\ FM.profitMarginVsBillableStaff = Zero)

\* a bundle computed from payroll cost and no revenue
C5_Witness ==
    /\ bundle.computed
    /\ FM.totalRevenue = Zero
    /\ RatGt(FM.totalPayrollCost, Zero)
    /\ RatGt(FM.billableStaffCost, Zero)
    /\ FM.profitMargin = Zero

\* C6: an employee's profitMargin is (revenue - payrollCost) / revenue * 100
\* with revenue, -100 with cost and no revenue, 0 with neither
C6_EmployeeMargin ==
    bundle.computed =>
        \A i \in DOMAIN bundle.employeeMetrics :
            LET m == bundle.employeeMetrics[i]
            IN  /\ RatGt(m.revenue, Zero) =>
                     m.profitMargin = RatMul(RatDiv(RatSub(m.revenue, m.payrollCost), m.revenue), Hundred)
                /\ (m.revenue = Zero /\ RatGt(m.payrollCost, Zero)) => m.profitMargin = Num(-100)
                /\ (m.revenue = Zero /\ RatLe(m.payrollCost, Zero)) => m.profitMargin = Zero

\* employees of all three kinds in one bundle: revenue, cost without
\* revenue, a negative cost without revenue
C6_Witness ==
    /\ bundle.computed
    /\ \E i \in DOMAIN bundle.employeeMetrics :
          RatGt(bundle.employeeMetrics[i].revenue, Zero)
    /\ \E i \in DOMAIN bundle.employeeMetrics :
          /\ bundle.employeeMetrics[i].revenue = Zero
          /\ RatGt(bundle.employeeMetrics[i].payrollCost, Zero)
          /\ bundle.employeeMetrics[i].profitMargin = Num(-100)
    /\ \E i \in DOMAIN bundle.employeeMetrics :
          /\ bundle.employeeMetrics[i].revenue = Zero
          /\ RatLt(bundle.employeeMetrics[i].payrollCost, Zero)

\* C7: an employee's nonBillableHours is max(0, payrollHours - billableHours),
\* never negative
C7_NonBillableHoursFloor ==
    bundle.computed =>
        \A i \in DOMAIN bundle.employeeMetrics :
            LET m == bundle.employeeMetrics[i]
            IN  /\ m.nonBillableHours = (IF RatGt(m.payrollHours, m.billableHours)
                                         THEN RatSub(m.payrollHours, m.billableHours) ELSE Zero)
                /\ RatGe(m.nonBillableHours, Zero)

\* one employee billed more hours than payroll paid, another has billed
\* hours and no payroll row
C7_Witness ==
    /\ bundle.computed
    /\ \E i \in DOMAIN bundle.employeeMetrics :
          /\ RatGt(bundle.employeeMetrics[i].payrollHours, Zero)
          /\ RatGt(bundle.employeeMetrics[i].billableHours, bundle.employeeMetrics[i].payrollHours)
          /\ bundle.employeeMetrics[i].nonBillableHours = Zero
    /\ \E i \in DOMAIN bundle.employeeMetrics :
          /\ bundle.employeeMetrics[i].payrollHours = Zero
          /\ RatGt(bundle.employeeMetrics[i].billableHours, Zero)

\* C8: the engine's payroll filter keeps a row exactly when the day its
\* check date names (annotation removed) is in 4/18/2025 .. 7/11/2025, in
\* every encoding, time zone and data set
C8_FilterKeepsWindowDays ==
    bundle.computed =>
        \A i \in DOMAIN payrollData.records :
            (payrollData.records[i] \in Range(filterQ2PayrollRecords(payrollData.records)))
                <=> InPayrollWindow(payrollData.records[i])

\* the calendar day of the date handed to the predicates, as a set
ProbeDay ==
    IF probe.isText THEN CalendarDayOfText(probe.text)
    ELSE {DaysFromCivil(probe.day[1], probe.day[2], probe.day[3])}

\* C9: isValidPayrollDate and isValidBillingDate are true exactly for the
\* calendar days of their windows, whatever the time of day and the time
\* zone; a text that is no date does not parse and is in neither window
C9_DateWindowPredicates ==
    probe.asked =>
        /\ probe.payroll <=> (ProbeDay \cap PayrollWindowDays # {})
        /\ probe.billing <=> (ProbeDay \cap BillingWindowDays # {})
        /\ (probe.isText /\ ProbeDay = {}) => ~probe.parsed

\* C10: totalPayrollCost is the sum of Total Expenses over the payroll rows
\* of the window, so it is billableStaffCost + hrCost, and grossProfit is
\* totalRevenue less that sum
C10_PayrollCostIsSumOfRows ==
    bundle.computed =>
        /\ FM.totalPayrollCost = SumBy(WindowPayroll, ExpensesOf)
        /\ FM.totalPayrollCost = RatAdd(FM.billableStaffCost, FM.hrCost)
        /\ FM.grossProfit = RatSub(FM.totalRevenue, RatAdd(FM.billableStaffCost, FM.hrCost))

----------------------------------------------------------------------------
(* The matching functions on names of the two systems, one call at a time *)

MaxCandidates == 2

TargetNames ==
    { <<"W","i","l","c","o","x",","," ","B","r","e","a","n","n"," ","R">>, <<"H","a","m","m","o","u","n","d",","," ","T","a","r","e","k">>, <<"M","i","h","a","i",","," ","B","r","y","a","n">>,
      <<"S","m","i","t","h",","," ","J","o","h","n">>, <<"S","M","I","T","H",","," ","J","O","H","N">>, <<"S","m","i","t","h",","," ","J","o","n">>, <<"S","m","y","t","h",","," ","J","o","n">>, <<"S","m","y","t","h",","," ","J","o","h","n">>,
      <<"D","o","e",","," ","J","a","n","e">>, <<"W","i","l","c","o","x",","," ","B","r","e","A","n","n">>, <<>> }

CandidateNames ==
    { <<"S","m","i","t","h",","," ","J","o","h","n">>, <<"S","M","I","T","H",","," ","J","O","H","N">>, <<"S","m","i","t","h",","," ","J","o","n">>, <<"S","m","i","t","h",","," ","A","n","a","i","l","y">>,
      <<"W","i","l","c","o","x",","," ","B","r","e","A","n","n">>, <<"H","a","m","m","o","u","d",","," ","R","i","c","k","y">>, <<>> }

\* the lists of at most MaxCandidates names, repetitions included
CandidateLists == UNION {[1..n -> CandidateNames] : n \in 0..MaxCandidates}

Thresholds == {70, 85, 96}

InitMatch ==
    /\ tz = 0
    /\ phase = "names"
    /\ billingData = emptyBillingResult
    /\ payrollData = emptyPayrollResult
    /\ bundle = NoBundle
    /\ probe = NoProbe
    /\ loads = NoLoads

\* a call of findEmployeeMatches
FindMatches(targetName, candidateNames, threshold) ==
    /\ phase = "names"
    /\ ~probe.asked
    /\ probe' = [asked |-> TRUE, kind |-> "find", targetName |-> targetName,
                 candidateNames |-> candidateNames, threshold |-> threshold,
                 result |-> findEmployeeMatches(targetName, candidateNames, threshold)]
    /\ UNCHANGED <<tz, phase, billingData, payrollData, bundle, loads>>

\* a call of validateEmployeeMatching
ValidateMatching(billingNames, payrollNames) ==
    /\ phase = "names"
    /\ ~probe.asked
    /\ probe' = [asked |-> TRUE, kind |-> "validate", billingNames |-> billingNames,
                 payrollNames |-> payrollNames,
                 result |-> validateEmployeeMatching(billingNames, payrollNames)]
    /\ UNCHANGED <<tz, phase, billingData, payrollData, bundle, loads>>

\* the characters and the length of the names handed to normalizeName
NameChars == {"a", "B", " ", ",", "-"}

MaxNameLen == 4

NameTexts == UNION {[1..n -> NameChars] : n \in 0..MaxNameLen}

\* normalizeName(name), and normalizeName of what it returned
NormalizeName(name) ==
    /\ phase = "names"
    /\ ~probe.asked
    /\ probe' = [asked |-> TRUE, kind |-> "normalize", name |-> name,
                 once |-> normalizeName(name),
                 twice |-> normalizeName(normalizeName(name))]
    /\ UNCHANGED <<tz, phase, billingData, payrollData, bundle, loads>>

NextMatch ==
    \/ \E name \in NameTexts : NormalizeName(name)
    \/ \E targetName \in TargetNames, candidateNames \in CandidateLists, threshold \in Thresholds :
          FindMatches(targetName, candidateNames, threshold)
    \/ \E billingNames \in [1..1 -> TargetNames], payrollNames \in CandidateLists :
          ValidateMatching(billingNames, payrollNames)

SpecMatch == InitMatch /\ [][NextMatch]_vars


\* ---------------------------------------------------------------------
\* Number cells handed to parseAccountingNumber
\* ---------------------------------------------------------------------

\* what a cost cell starts with, holds and ends with
CellPrefixes == {<<>>, <<"(">>, <<"-">>, <<" ">>, <<"$">>, <<"-","-">>}

CellBodies == {<<>>, <<"1",",","6","8","3",".","9","4">>, <<"4","0",".","0","0">>, <<"0">>, <<".","5">>, <<"1",",","2",",","3">>,
               <<"1","2","a","b","c">>, <<"a","b","c">>, <<"I","n","f","i","n","i","t","y">>}

CellSuffixes == {<<>>, <<")">>, <<" ">>}

\* the numbers a sheet cell holds when it is not text
CellNumbers == {Zero, Num(5), Num(-5), Rat(168394, 100), Rat(-168394, 100),
                Infinity, RatNeg(Infinity)}

NumberCells ==
    {TextCell(p \o b \o s) : p \in CellPrefixes, b \in CellBodies, s \in CellSuffixes}
        \cup {NumCell(r) : r \in CellNumbers}

\* parseAccountingNumber(value), and parseAccountingNumber of what it returned
ParseAccounting(value) ==
    /\ phase = "cells"
    /\ ~probe.asked
    /\ probe' = [asked |-> TRUE, kind |-> "accounting", value |-> value,
                 result |-> parseAccountingNumber(value),
                 again |-> parseAccountingNumber(NumCell(parseAccountingNumber(value)))]
    /\ UNCHANGED <<tz, phase, billingData, payrollData, bundle, loads>>

InitCells ==
    /\ tz = 0
    /\ phase = "cells"
    /\ billingData = emptyBillingResult
    /\ payrollData = emptyPayrollResult
    /\ bundle = NoBundle
    /\ probe = NoProbe
    /\ loads = NoLoads

NextCells == \E value \in NumberCells : ParseAccounting(value)

SpecCells == InitCells /\ [][NextCells]_vars


\* ---------------------------------------------------------------------
\* Billing rows handed to classifyEmployeeRole
\* ---------------------------------------------------------------------

MaxRoleRows == 3

\* the service codes of the rows: the technician code, the three
\* supervisor codes and a code of neither role
RoleCodes == {97153, 97155, 97156, 97151, 97158}

RoleRows == UNION {[1..n -> {[Code |-> Num(c)] : c \in RoleCodes}] : n \in 0..MaxRoleRows}

\* the orders a list of n rows can come in
Orders(n) == {p \in [1..n -> 1..n] : \A i \in 1..n : \E j \in 1..n : p[j] = i}

\* classifyEmployeeRole(billingRecords), and of the same rows in another order
ClassifyRole(billingRecords, order) ==
    /\ phase = "roles"
    /\ ~probe.asked
    /\ probe' = [asked |-> TRUE, kind |-> "role", billingRecords |-> billingRecords,
                 reordered |-> [i \in DOMAIN billingRecords |-> billingRecords[order[i]]],
                 role |-> classifyEmployeeRole(billingRecords),
                 roleReordered |-> classifyEmployeeRole(
                     [i \in DOMAIN billingRecords |-> billingRecords[order[i]]])]
    /\ UNCHANGED <<tz, phase, billingData, payrollData, bundle, loads>>

InitRoles ==
    /\ tz = 0
    /\ phase = "roles"
    /\ billingData = emptyBillingResult
    /\ payrollData = emptyPayrollResult
    /\ bundle = NoBundle
    /\ probe = NoProbe
    /\ loads = NoLoads

NextRoles ==
    \E billingRecords \in RoleRows : \E order \in Orders(Len(billingRecords)) :
        ClassifyRole(billingRecords, order)

SpecRoles == InitRoles /\ [][NextRoles]_vars

\* ---------------------------------------------------------------------
\* Employee metrics handed to identifyImprovementOpportunities
\* ---------------------------------------------------------------------

MaxMetricRows == 3

\* an EmployeeMetric as analyzeEmployeePerformance derives it from the sums
\* of an employee's rows, the cost being 19 an hour
MetricOfHours(employeeName, role, billableHours, revenue, payrollHours) ==
    MetricOfSums(employeeName, employeeName, billableHours > 0 /\ payrollHours > 0, role,
                 Num(billableHours), Num(revenue), Num(payrollHours), Num(19 * payrollHours))

SampleMetrics ==
    { MetricOfHours(<<"T","e","c","h",","," ","A","n","n">>, "TECH", 40, 2000, 100),
      MetricOfHours(<<"T","e","c","h",","," ","B","e","n">>, "TECH", 80, 4000, 100),
      MetricOfHours(<<"T","e","c","h",","," ","C","a","l">>, "TECH", 95, 4750, 100),
      MetricOfHours(<<"T","e","c","h",","," ","D","e","e">>, "TECH", 90, 4500, 100),
      MetricOfHours(<<"T","e","c","h",","," ","E","v","e">>, "TECH", 0, 0, 100),
      MetricOfHours(<<"T","e","c","h",","," ","F","a","y">>, "TECH", 40, 2000, 0),
      MetricOfHours(<<"T","e","c","h",","," ","G","u","s">>, "TECH", 60, 6000, 200),
      MetricOfHours(<<"T","e","c","h",","," ","H","a","l">>, "TECH", 65, 6500, 100),
      MetricOfHours(<<"H","a","m","m","o","u","d",","," ","R","i","c","k","y">>, "TECH", 40, 2000, 100),
      MetricOfHours(<<"B","c","b","a",","," ","I","d","a">>, "BCBA", 40, 4000, 100) }

MetricLists == UNION {[1..n -> SampleMetrics] : n \in 0..MaxMetricRows}

\* a call of identifyImprovementOpportunities
IdentifyOpportunities(employeeMetrics) ==
    /\ phase = "metrics"
    /\ ~probe.asked
    /\ probe' = [asked |-> TRUE, kind |-> "opportunities", employeeMetrics |-> employeeMetrics,
                 result |-> identifyImprovementOpportunities(employeeMetrics)]
    /\ UNCHANGED <<tz, phase, billingData, payrollData, bundle, loads>>

InitMetrics ==
    /\ tz = 0
    /\ phase = "metrics"
    /\ billingData = emptyBillingResult
    /\ payrollData = emptyPayrollResult
    /\ bundle = NoBundle
    /\ probe = NoProbe
    /\ loads = NoLoads

NextMetrics == \E employeeMetrics \in MetricLists : IdentifyOpportunities(employeeMetrics)

SpecMetrics == InitMetrics /\ [][NextMetrics]_vars

\* ---------------------------------------------------------------------
\* Processed data handed to analyzeEmployeePerformance
\* ---------------------------------------------------------------------

MaxSampleRows == 2

SampleBillingRows ==
    { BillingRow(<<"W","i","l","c","o","x",","," ","B","r","e","A","n","n">>, <<"2","0","2","5","-","0","4","-","1","5">>, <<"9","7","1","5","3">>, <<"1","0">>, <<"5","0","0">>),
      BillingRow(<<"W","i","l","c","o","x",","," ","B","r","e","a","n","n"," ","R">>, <<"2","0","2","5","-","0","4","-","1","6">>, <<"9","7","1","5","3">>, <<"2","0">>, <<"1","0","0","0">>),
      BillingRow(<<"S","m","i","t","h",","," ","J","o","h","n">>, <<"2","0","2","5","-","0","5","-","0","2">>, <<"9","7","1","5","3">>, <<"3","0">>, <<"1","5","0","0">>),
      BillingRow(<<"D","o","e",","," ","J","a","n","e">>, <<"2","0","2","5","-","0","5","-","0","2">>, <<"9","7","1","5","5">>, <<"8">>, <<"8","0","0">>) }

SamplePayrollRows ==
    { PayrollRow(<<"W","i","l","c","o","x",","," ","B","r","e","a","n","n"," ","R">>, <<"0","4","/","2","5","/","2","0","2","5">>, TextCell(<<"4","0",".","0","0">>), TextCell(<<"7","6","0",".","0","0">>)),
      PayrollRow(<<"W","i","l","c","o","x",","," ","B","r","e","A","n","n">>, <<"0","5","/","0","9","/","2","0","2","5">>, TextCell(<<"2","0",".","0","0">>), TextCell(<<"3","8","0",".","0","0">>)),
      PayrollRow(<<"S","m","i","t","h",","," ","J","o","h","n">>, <<"0","4","/","2","5","/","2","0","2","5">>, TextCell(<<"4","0",".","0","0">>), TextCell(<<"7","6","0",".","0","0">>)),
      PayrollRow(<<"S","e","i","f","e","d","d","i","n","e",","," ","M","a","l","a","k">>, <<"0","4","/","2","5","/","2","0","2","5">>, TextCell(<<"8","0",".","0","0">>), TextCell(<<"2",",","0","0","0",".","0","0">>)) }

\* processBillingCsv over the rows of a file
RECURSIVE BillingDataOf(_)
BillingDataOf(rows) ==
    IF rows = <<>> THEN emptyBillingResult
    ELSE FilterBillingRecord(BillingDataOf(Slice(rows, 1, Len(rows) - 1)),
                             validateBillingRecord(rows[Len(rows)]))

\* processPayrollExcel over the rows of a sheet
RECURSIVE PayrollDataOf(_)
PayrollDataOf(rows) ==
    IF rows = <<>> THEN emptyPayrollResult
    ELSE FilterPayrollRecord(PayrollDataOf(Slice(rows, 1, Len(rows) - 1)),
                             cleanPayrollRow(rows[Len(rows)]))

SampleBillingFiles == UNION {[1..n -> SampleBillingRows] : n \in 0..MaxSampleRows}

SamplePayrollSheets == UNION {[1..n -> SamplePayrollRows] : n \in 0..MaxSampleRows}

\* a call of analyzeEmployeePerformance
AnalyzePerformance(bd, pd) ==
    /\ phase = "performance"
    /\ ~probe.asked
    /\ probe' = [asked |-> TRUE, kind |-> "performance", billingRecords |-> bd.records,
                 payrollRecords |-> pd.records,
                 result |-> analyzeEmployeePerformance(bd, pd)]
    /\ UNCHANGED <<tz, phase, billingData, payrollData, bundle, loads>>

InitPerformance ==
    /\ tz = 0
    /\ phase = "performance"
    /\ billingData = emptyBillingResult
    /\ payrollData = emptyPayrollResult
    /\ bundle = NoBundle
    /\ probe = NoProbe
    /\ loads = NoLoads

NextPerformance ==
    \E rows \in SampleBillingFiles, sheet \in SamplePayrollSheets :
        AnalyzePerformance(BillingDataOf(rows), PayrollDataOf(sheet))

SpecPerformance == InitPerformance /\ [][NextPerformance]_vars

\* ---------------------------------------------------------------------
\* Validation results handed to calculateDataQuality
\* ---------------------------------------------------------------------

MaxValidated == 2

\* the results of validating at most MaxValidated records of a source: an
\* invalid record raised an error, a record may have raised a warning
ValidationResults ==
    {ValidationResult(valid, invalid, invalid, warnings) :
        valid \in 0..MaxValidated, invalid \in 0..MaxValidated, warnings \in 0..1}

\* matching rates, among them the thresholds of the matching issue and a
\* rate outside 0..100
MatchingRates == {Zero, Num(50), Num(69), Rat(139, 2), Num(70), Num(89), Num(90), Num(100), Num(130)}

\* a call of calculateDataQuality
CalculateQuality(billingValidation, payrollValidation, employeeMatchingRate) ==
    /\ phase = "quality"
    /\ ~probe.asked
    /\ probe' = [asked |-> TRUE, kind |-> "quality", billingValidation |-> billingValidation,
                 payrollValidation |-> payrollValidation,
                 employeeMatchingRate |-> employeeMatchingRate,
                 result |-> calculateDataQuality(billingValidation, payrollValidation,
                                                 employeeMatchingRate)]
    /\ UNCHANGED <<tz, phase, billingData, payrollData, bundle, loads>>

InitQuality ==
    /\ tz = 0
    /\ phase = "quality"
    /\ billingData = emptyBillingResult
    /\ payrollData = emptyPayrollResult
    /\ bundle = NoBundle
    /\ probe = NoProbe
    /\ loads = NoLoads

NextQuality ==
    \E billingValidation \in ValidationResults, payrollValidation \in ValidationResults,
       employeeMatchingRate \in MatchingRates :
        CalculateQuality(billingValidation, payrollValidation, employeeMatchingRate)

SpecQuality == InitQuality /\ [][NextQuality]_vars


\* ---------------------------------------------------------------------
\* Record arrays handed to analyzeEmployeePerformance as they are: the
\* function is public and takes any ProcessedBillingData/ProcessedPayrollData
\* ---------------------------------------------------------------------

\* records inside the windows, and one of each source dated outside
WindowBillingRecords ==
    { validateBillingRecord(BillingRow(<<"S","m","i","t","h",","," ","J","o","h","n">>, <<"2","0","2","5","-","0","5","-","0","2">>, <<"9","7","1","5","3">>, <<"3","0">>, <<"1","5","0","0">>)),
      validateBillingRecord(BillingRow(<<"D","o","e",","," ","J","a","n","e">>, <<"2","0","2","5","-","0","5","-","0","2">>, <<"9","7","1","5","5">>, <<"8">>, <<"8","0","0">>)),
      validateBillingRecord(BillingRow(<<"S","m","i","t","h",","," ","J","o","h","n">>, <<"2","0","2","5","-","0","1","-","1","5">>, <<"9","7","1","5","3">>, <<"1","0">>, <<"5","0","0">>)),
      validateBillingRecord(BillingRow(<<"L","a","t","e",","," ","L","a","r","r","y">>, <<"2","0","2","5","-","0","8","-","0","1">>, <<"9","7","1","5","3">>, <<"5">>, <<"2","5","0">>)) }

WindowPayrollRecords ==
    { cleanPayrollRow(PayrollRow(<<"S","m","i","t","h",","," ","J","o","h","n">>, <<"0","4","/","2","5","/","2","0","2","5">>, TextCell(<<"4","0",".","0","0">>), TextCell(<<"7","6","0",".","0","0">>))),
      cleanPayrollRow(PayrollRow(<<"D","o","e",","," ","J","a","n","e">>, <<"0","5","/","0","9","/","2","0","2","5">>, TextCell(<<"2","0",".","0","0">>), TextCell(<<"9","0","0",".","0","0">>))),
      cleanPayrollRow(PayrollRow(<<"S","m","i","t","h",","," ","J","o","h","n">>, <<"0","1","/","1","0","/","2","0","2","5">>, TextCell(<<"2","5",".","0","0">>), TextCell(<<"4","7","5",".","0","0">>))),
      cleanPayrollRow(PayrollRow(<<"E","a","r","l","y",","," ","E","a","r","l">>, <<"0","2","/","0","7","/","2","0","2","5">>, TextCell(<<"1","5",".","0","0">>), TextCell(<<"2","8","5",".","0","0">>))) }

\* a ProcessedBillingData holding the given records
RECURSIVE BillingDataWith(_)
BillingDataWith(records) ==
    IF records = <<>> THEN emptyBillingResult
    ELSE PushBillingRecord(BillingDataWith(Slice(records, 1, Len(records) - 1)),
                           records[Len(records)])

\* a ProcessedPayrollData holding the given records
RECURSIVE PayrollDataWith(_)
PayrollDataWith(records) ==
    IF records = <<>> THEN emptyPayrollResult
    ELSE PushPayrollRecord(PayrollDataWith(Slice(records, 1, Len(records) - 1)),
                           records[Len(records)])

WindowBillingLists == UNION {[1..n -> WindowBillingRecords] : n \in 0..MaxSampleRows}

WindowPayrollLists == UNION {[1..n -> WindowPayrollRecords] : n \in 0..MaxSampleRows}

\* a call of analyzeEmployeePerformance on record arrays
AnalyzeRecords(billingRecords, payrollRecords) ==
    /\ phase = "records"
    /\ ~probe.asked
    /\ probe' = [asked |-> TRUE, kind |-> "records", billingRecords |-> billingRecords,
                 payrollRecords |-> payrollRecords,
                 result |-> analyzeEmployeePerformance(BillingDataWith(billingRecords),
                                                       PayrollDataWith(payrollRecords))]
    /\ UNCHANGED <<tz, phase, billingData, payrollData, bundle, loads>>

InitRecords ==
    /\ tz = 0
    /\ phase = "records"
    /\ billingData = emptyBillingResult
    /\ payrollData = emptyPayrollResult
    /\ bundle = NoBundle
    /\ probe = NoProbe
    /\ loads = NoLoads

NextRecords ==
    \E billingRecords \in WindowBillingLists, payrollRecords \in WindowPayrollLists :
        AnalyzeRecords(billingRecords, payrollRecords)

SpecRecords == InitRecords /\ [][NextRecords]_vars

\* ---------------------------------------------------------------------
\* Payroll records handed to filterQ2PayrollRecords
\* ---------------------------------------------------------------------

MaxFilterRows == 3

\* check dates as the sheet spells them: padded, unpadded, annotated with
\* Void, on the last day of the window and outside the window
FilterPayrollRecords ==
    { cleanPayrollRow(PayrollRow(<<"S","m","i","t","h",","," ","J","o","h","n">>, <<"0","4","/","2","5","/","2","0","2","5">>, TextCell(<<"4","0",".","0","0">>), TextCell(<<"7","6","0",".","0","0">>))),
      cleanPayrollRow(PayrollRow(<<"D","o","e",","," ","J","a","n","e">>, <<"4","/","2","5","/","2","0","2","5">>, TextCell(<<"2","0",".","0","0">>), TextCell(<<"9","0","0",".","0","0">>))),
      cleanPayrollRow(PayrollRow(<<"S","m","i","t","h",","," ","J","o","h","n">>, <<"0","5","/","0","2","/","2","0","2","5"," ","-"," ","V","o","i","d">>, TextCell(<<"-","4","0",".","0","0">>), TextCell(<<"(","7","6","0",".","0","0",")">>))),
      cleanPayrollRow(PayrollRow(<<"D","o","e",","," ","J","a","n","e">>, <<"0","7","/","1","1","/","2","0","2","5">>, TextCell(<<"1","0",".","0","0">>), TextCell(<<"4","5","0",".","0","0">>))),
      cleanPayrollRow(PayrollRow(<<"E","a","r","l","y",","," ","E","a","r","l">>, <<"0","1","/","1","0","/","2","0","2","5">>, TextCell(<<"1","5",".","0","0">>), TextCell(<<"2","8","5",".","0","0">>))) }

FilterPayrollLists == UNION {[1..n -> FilterPayrollRecords] : n \in 0..MaxFilterRows}

\* a call of filterQ2PayrollRecords
FilterQ2(payrollRecords) ==
    /\ phase = "filter"
    /\ ~probe.asked
    /\ probe' = [asked |-> TRUE, kind |-> "filter", payrollRecords |-> payrollRecords,
                 result |-> filterQ2PayrollRecords(payrollRecords)]
    /\ UNCHANGED <<tz, phase, billingData, payrollData, bundle, loads>>

InitFilter ==
    /\ tz \in TZOffsets
    /\ phase = "filter"
    /\ billingData = emptyBillingResult
    /\ payrollData = emptyPayrollResult
    /\ bundle = NoBundle
    /\ probe = NoProbe
    /\ loads = NoLoads

NextFilter == \E payrollRecords \in FilterPayrollLists : FilterQ2(payrollRecords)

SpecFilter == InitFilter /\ [][NextFilter]_vars
\* ---------------------------------------------------------------------
\* Load cycles: useFileReader publishes the data sets of a cycle one after
\* the other, useDataProcessor recomputes its bundle at each publication,
\* and retry starts the next cycle
\* ---------------------------------------------------------------------

\* the billing files and payroll sheets of the cycles; one sheet has a
\* separator row whose name holds no letter, and one employee is spelled
\* 'Mihai, Brian' by billing and 'Mihai, Bryan' by payroll; 'Hammound,
\* Tarek' is the payroll name of 'Hammoud, Ricky' of the HR staff list
CycleBillingFiles ==
    { <<>>,
      << BillingRow(<<"S","m","i","t","h",","," ","J","o","h","n">>, <<"2","0","2","5","-","0","4","-","1","5">>, <<"9","7","1","5","3">>, <<"1","0","0">>, <<"5","0","0","0">>) >>,
      << BillingRow(<<"D","o","e",","," ","J","a","n","e">>, <<"2","0","2","5","-","0","5","-","0","2">>, <<"9","7","1","5","5">>, <<"8">>, <<"8","0","0">>) >>,
      << BillingRow(<<"S","m","i","t","h",","," ","J","o","h","n">>, <<"2","0","2","5","-","0","4","-","1","5">>, <<"9","7","1","5","3">>, <<"1","0","0">>, <<"5","0","0","0">>),
         BillingRow(<<"D","o","e",","," ","J","a","n","e">>, <<"2","0","2","5","-","0","5","-","0","2">>, <<"9","7","1","5","5">>, <<"8">>, <<"8","0","0">>) >>,
      << BillingRow(<<"M","i","h","a","i",","," ","B","r","i","a","n">>, <<"2","0","2","5","-","0","5","-","0","2">>, <<"9","7","1","5","3">>, <<"3","0">>, <<"1","5","0","0">>) >>,
      << BillingRow(<<"S","m","i","t","h",","," ","J","o","h","n">>, <<"2","0","2","5","-","0","4","-","1","5">>, <<"9","7","1","5","3">>, <<"1","0","0">>, <<"5","0","0","0">>),
         BillingRow(<<"D","o","e",","," ","J","a","n","e">>, <<"2","0","2","5","-","0","5","-","0","2">>, <<"9","7","1","5","3">>, <<"6","0">>, <<"3","0","0","0">>) >> }

CyclePayrollSheets ==
    { <<>>,
      << PayrollRow(<<"S","m","i","t","h",","," ","J","o","h","n">>, <<"0","4","/","2","5","/","2","0","2","5">>, TextCell(<<"1","2","0",".","0","0">>), TextCell(<<"3",",","0","0","0",".","0","0">>)) >>,
      << PayrollRow(<<"S","m","i","t","h",","," ","J","o","h","n">>, <<"0","4","/","2","5","/","2","0","2","5">>, TextCell(<<"1","2","0",".","0","0">>), TextCell(<<"3",",","0","0","0",".","0","0">>)),
         PayrollRow(<<"D","o","e",","," ","J","a","n","e">>, <<"0","4","/","2","5","/","2","0","2","5">>, TextCell(<<"4","0",".","0","0">>), TextCell(<<"1",",","0","0","0",".","0","0">>)) >>,
      << PayrollRow(<<"S","m","i","t","h",","," ","J","o","h","n">>, <<"0","4","/","2","5","/","2","0","2","5">>, TextCell(<<"1","2","0",".","0","0">>), TextCell(<<"3",",","0","0","0",".","0","0">>)),
         PayrollRow(<<"-","-","-">>, <<"0","4","/","2","5","/","2","0","2","5">>, TextCell(<<"0",".","0","0">>), TextCell(<<"0",".","0","0">>)) >>,
      << PayrollRow(<<"M","i","h","a","i",","," ","B","r","y","a","n">>, <<"0","4","/","2","5","/","2","0","2","5">>, TextCell(<<"4","0",".","0","0">>), TextCell(<<"7","6","0",".","0","0">>)) >>,
      << PayrollRow(<<"S","m","i","t","h",","," ","J","o","h","n">>, <<"0","4","/","2","5","/","2","0","2","5">>, TextCell(<<"1","2","0",".","0","0">>), TextCell(<<"3",",","0","0","0",".","0","0">>)),
         PayrollRow(<<"H","a","m","m","o","u","n","d",","," ","T","a","r","e","k">>, <<"0","4","/","2","5","/","2","0","2","5">>, TextCell(<<"8","0",".","0","0">>), TextCell(<<"2",",","4","0","0",".","0","0">>)) >> }

\* what loadData hands to setBillingData after processBillingCsv
PublishedBilling(billing) ==
    [billing EXCEPT
        !.uniqueEmployees = Distinct([i \in DOMAIN billing.records |-> billing.records[i].TechName])]

\* what processPayrollExcel returns and loadData hands to setPayrollData
PublishedPayroll(payroll) ==
    [payroll EXCEPT
        !.uniqueEmployees = Distinct([i \in DOMAIN payroll.records |-> payroll.records[i].Name])]

\* the effect on mount, and retry: loadData starts
LoadData ==
    /\ phase \in {"mounted", "idle"}
    /\ phase' = "billing"
    /\ UNCHANGED <<tz, billingData, payrollData, bundle, probe, loads>>

\* setBillingData with the processed file; the hook recomputes its bundle
PublishBilling(published) ==
    /\ phase = "billing"
    /\ billingData' = published
    /\ bundle' = processedData(published, payrollData)
    /\ phase' = "payroll"
    /\ UNCHANGED <<tz, payrollData, probe, loads>>

\* setPayrollData with the processed sheet; the hook recomputes its bundle
PublishPayroll(published) ==
    /\ phase = "payroll"
    /\ payrollData' = published
    /\ bundle' = processedData(billingData, published)
    /\ phase' = "idle"
    /\ UNCHANGED <<tz, billingData, probe, loads>>

\* a file could not be loaded: both expected data sets are published
PublishFallback ==
    /\ phase \in {"billing", "payroll"}
    /\ billingData' = mockBillingData
    /\ payrollData' = mockPayrollData
    /\ bundle' = processedData(mockBillingData, mockPayrollData)
    /\ phase' = "idle"
    /\ UNCHANGED <<tz, probe, loads>>

InitCycles ==
    /\ tz \in TZOffsets
    /\ phase = "mounted"
    /\ billingData = NullData
    /\ payrollData = NullData
    /\ bundle = NoBundle
    /\ probe = NoProbe
    /\ loads = NoLoads

NextCycles ==
    \/ LoadData
    \/ \E rows \in CycleBillingFiles : PublishBilling(PublishedBilling(BillingDataOf(rows)))
    \/ \E sheet \in CyclePayrollSheets : PublishPayroll(PublishedPayroll(PayrollDataOf(sheet)))
    \/ PublishFallback

SpecCycles == InitCycles /\ [][NextCycles]_vars

\* ---------------------------------------------------------------------
\* Overlapping loads: every call of loadData (the effect on mount, then
\* retry) runs on its own; nothing cancels a call that is still awaiting
\* a file when the next one starts
\* ---------------------------------------------------------------------

\* the calls of loadData followed: the one on mount and the retries
MaxLoads == 3

LoadBillingFiles ==
    { << BillingRow(<<"S","m","i","t","h",","," ","J","o","h","n">>, <<"2","0","2","5","-","0","4","-","1","5">>, <<"9","7","1","5","3">>, <<"1","0","0">>, <<"5","0","0","0">>) >>,
      << BillingRow(<<"D","o","e",","," ","J","a","n","e">>, <<"2","0","2","5","-","0","5","-","0","2">>, <<"9","7","1","5","5">>, <<"8">>, <<"8","0","0">>) >> }

LoadPayrollSheets ==
    { << PayrollRow(<<"S","m","i","t","h",","," ","J","o","h","n">>, <<"0","4","/","2","5","/","2","0","2","5">>, TextCell(<<"1","2","0",".","0","0">>), TextCell(<<"3",",","0","0","0",".","0","0">>)) >>,
      << PayrollRow(<<"D","o","e",","," ","J","a","n","e">>, <<"0","4","/","2","5","/","2","0","2","5">>, TextCell(<<"4","0",".","0","0">>), TextCell(<<"1",",","0","0","0",".","0","0">>)) >> }

\* useState(null), useState(null), useState(true): no call has started,
\* and no call has published a data set (cycle 0)
InitialLoads ==
    [isLoading |-> TRUE,
     calls |-> [c \in 1..MaxLoads |-> "notStarted"],
     billingCycle |-> 0,
     payrollCycle |-> 0]

\* loadData is called (the c-th time): setIsLoading(true), then it awaits
\* processBillingCsv
StartLoad(c) ==
    /\ loads.calls[c] = "notStarted"
    /\ \A earlier \in 1..(c - 1) : loads.calls[earlier] # "notStarted"
    /\ loads' = [loads EXCEPT !.isLoading = TRUE, !.calls[c] = "awaitBilling"]
    /\ UNCHANGED <<tz, phase, billingData, payrollData, bundle, probe>>

\* processBillingCsv of call c resolves: setBillingData, the hook
\* recomputes its bundle, and the call awaits processPayrollExcel
BillingResolves(c, published) ==
    /\ loads.calls[c] = "awaitBilling"
    /\ billingData' = published
    /\ bundle' = processedData(published, payrollData)
    /\ loads' = [loads EXCEPT !.billingCycle = c, !.calls[c] = "awaitPayroll"]
    /\ UNCHANGED <<tz, phase, payrollData, probe>>

\* processPayrollExcel of call c resolves: setPayrollData, the hook
\* recomputes its bundle, and finally setIsLoading(false)
PayrollResolves(c, published) ==
    /\ loads.calls[c] = "awaitPayroll"
    /\ payrollData' = published
    /\ bundle' = processedData(billingData, published)
    /\ loads' = [loads EXCEPT !.isLoading = FALSE, !.payrollCycle = c, !.calls[c] = "finished"]
    /\ UNCHANGED <<tz, phase, billingData, probe>>

\* a file of call c is rejected: the catch block publishes both expected
\* data sets, and finally setIsLoading(false)
LoadRejected(c) ==
    /\ loads.calls[c] \in {"awaitBilling", "awaitPayroll"}
    /\ billingData' = mockBillingData
    /\ payrollData' = mockPayrollData
    /\ bundle' = processedData(mockBillingData, mockPayrollData)
    /\ loads' = [loads EXCEPT !.isLoading = FALSE, !.billingCycle = c,
                              !.payrollCycle = c, !.calls[c] = "finished"]
    /\ UNCHANGED <<tz, phase, probe>>

InitLoads ==
    /\ tz = 0
    /\ phase = "mounted"
    /\ billingData = NullData
    /\ payrollData = NullData
    /\ bundle = NoBundle
    /\ probe = NoProbe
    /\ loads = InitialLoads

NextLoads ==
    \E c \in 1..MaxLoads :
        \/ StartLoad(c)
        \/ \E rows \in LoadBillingFiles : BillingResolves(c, PublishedBilling(BillingDataOf(rows)))
        \/ \E sheet \in LoadPayrollSheets : PayrollResolves(c, PublishedPayroll(PayrollDataOf(sheet)))
        \/ LoadRejected(c)

SpecLoads == InitLoads /\ [][NextLoads]_vars


\* C11: totalRevenue is the sum of Price over the billing rows of the
\* billing window, recomputed from the rows whatever total the source of
\* the data reported
C11_RevenueIsSumOfRows ==
    bundle.computed => FM.totalRevenue = SumBy(WindowBilling, PriceOf)

\* the names the exact-mapping table has an entry for
MappingKeys == {m[1] : m \in EMPLOYEE_NAME_MAPPING}

FindAsked == probe.asked /\ probe.kind = "find"

ValidateAsked == probe.asked /\ probe.kind = "validate"

\* C12: for a target name that is a key of the exact-mapping table
\* findEmployeeMatches returns the mapped name as exactMatch, confidence 100,
\* shouldAutoMatch true and no fuzzy matches, evaluates no candidate, and
\* the result is the same for every candidate list and threshold
C12_ExactMappingFirst ==
    (FindAsked /\ probe.targetName \in MappingKeys) =>
        /\ ~probe.result.threw
        /\ probe.result.hasExactMatch
        /\ \E m \in EMPLOYEE_NAME_MAPPING : m[1] = probe.targetName /\ probe.result.exactMatch = m[2]
        /\ probe.result.confidence = 100
        /\ probe.result.shouldAutoMatch
        /\ probe.result.fuzzyMatches = <<>>
        /\ probe.result.evaluated = 0

\* a mapped name asked with two candidates, one of them spelled like it
C12_Witness ==
    /\ FindAsked
    /\ probe.targetName \in MappingKeys
    /\ Len(probe.candidateNames) = 2
    /\ probe.result.exactMatch \in Range(probe.candidateNames)
    /\ probe.result.shouldAutoMatch

\* the candidates that clear the threshold of validateEmployeeMatching for
\* a billing name (none when the comparison cannot be made)
ClearingCandidates(billingName, payrollNames) ==
    IF ThrowingCandidates(applyExactMapping(billingName), payrollNames) # {} THEN <<>>
    ELSE FuzzyMatchesOf(applyExactMapping(billingName), payrollNames, 85)

AutoMatchOnlyWhenUnique(result) ==
    /\ result.shouldAutoMatch =>
          (Len(result.fuzzyMatches) = 1 /\ result.fuzzyMatches[1].confidence >= 95)
    /\ Len(result.fuzzyMatches) >= 2 => ~result.shouldAutoMatch

\* C13 as stated: for every target name findEmployeeMatches returns
\* shouldAutoMatch = true only when exactly one fuzzy candidate cleared the
\* threshold, with confidence at least 95, and whenever two or more
\* candidates clear the threshold validateEmployeeMatching leaves the name
\* unmatched
C13_AutoMatchOnlyWhenUnique ==
    /\ (FindAsked /\ ~probe.result.threw) => AutoMatchOnlyWhenUnique(probe.result)
    /\ (ValidateAsked /\ ~probe.result.threw) =>
          \A i \in DOMAIN probe.billingNames :
              Len(ClearingCandidates(probe.billingNames[i], probe.payrollNames)) >= 2
                  => probe.billingNames[i] \in Range(probe.result.unmatchedBilling)

\* C13, amended: the same for a target name the exact-mapping table has no
\* entry for (an entry gives shouldAutoMatch = true without any fuzzy
\* candidate), and validateEmployeeMatching leaves the name unmatched
\* unless the payroll names hold the mapped name itself
C13_AutoMatchOnlyWhenUniqueFuzzy ==
    /\ (FindAsked /\ ~probe.result.threw /\ probe.targetName \notin MappingKeys) =>
          AutoMatchOnlyWhenUnique(probe.result)
    /\ (ValidateAsked /\ ~probe.result.threw) =>
          \A i \in DOMAIN probe.billingNames :
              (/\ Len(ClearingCandidates(probe.billingNames[i], probe.payrollNames)) >= 2
               /\ applyExactMapping(probe.billingNames[i]) \notin Range(probe.payrollNames))
                  => probe.billingNames[i] \in Range(probe.result.unmatchedBilling)

\* two candidates cleared the threshold, the best of them with a confidence
\* of at least 95, and nothing was matched automatically
C13_Witness ==
    /\ FindAsked
    /\ probe.targetName \notin MappingKeys
    /\ Len(probe.result.fuzzyMatches) = 2
    /\ probe.result.confidence >= 95
    /\ ~probe.result.shouldAutoMatch

\* C14: normalizeName is idempotent: normalizing a normalized name returns
\* it unchanged, for every text
C14_NormalizeIdempotent ==
    (probe.asked /\ probe.kind = "normalize") => probe.twice = probe.once


\* a decimal literal: digits with at most one point and at least one digit
PlainDecimal(s) ==
    /\ \A i \in DOMAIN s : IsDigit(s[i]) \/ s[i] = "."
    /\ Len(SelectSeq(s, LAMBDA c : c = ".")) <= 1
    /\ \E i \in DOMAIN s : IsDigit(s[i])

\* the value a decimal literal denotes
DecimalValue(s) ==
    Rat(DigitsToNat(RemoveChar(s, ".")),
        Pow10(IF includes(s, <<".">>)
              THEN Len(s) - (CHOOSE i \in DOMAIN s : s[i] = ".") ELSE 0))

AccountingAsked == probe.asked /\ probe.kind = "accounting"

\* the number the claim gives a trimmed text, where it gives one
AccountingValueKnown(str) ==
    \/ str = <<>>
    \/ \A i \in DOMAIN str : ~IsDigit(str[i])
    \/ PlainDecimal(RemoveChar(str, ","))
    \/ /\ Head(str) = "(" /\ str[Len(str)] = ")"
       /\ PlainDecimal(RemoveChar(Slice(str, 2, Len(str) - 1), ","))
    \/ Head(str) = "-" /\ PlainDecimal(RemoveChar(Tail(str), ","))

AccountingValue(str) ==
    IF str = <<>> \/ \A i \in DOMAIN str : ~IsDigit(str[i]) THEN Zero
    ELSE IF PlainDecimal(RemoveChar(str, ",")) THEN DecimalValue(RemoveChar(str, ","))
    ELSE IF Head(str) = "("
         THEN RatNeg(DecimalValue(RemoveChar(Slice(str, 2, Len(str) - 1), ",")))
    ELSE RatNeg(DecimalValue(RemoveChar(Tail(str), ",")))

\* C15: parseAccountingNumber returns a finite number for every cell: the
\* negated contents of a parenthesised amount, the negated rest after a
\* leading minus, the value of any other amount (thousands separators
\* removed), 0 for an empty or unparsable cell; and its own result parses
\* to the same number
C15_AccountingNumberFinite ==
    AccountingAsked =>
        /\ IsFiniteNumber(probe.result)
        /\ probe.again = probe.result
        /\ (probe.value.isText /\ AccountingValueKnown(trim(probe.value.text)))
               => probe.result = AccountingValue(trim(probe.value.text))
        /\ ~probe.value.isText /\ IsFiniteNumber(probe.value.num)
               => probe.result = probe.value.num

RoleAsked == probe.asked /\ probe.kind = "role"

\* the number of rows of a list whose code is one of the given codes
RowsWithCode(records, codes) ==
    Cardinality({i \in DOMAIN records : \E c \in codes : records[i].Code = Num(c)})

RoleByCounts(n, tech, supervisor, role, roleReordered) ==
    /\ n = 0 => role = "TECH"
    /\ (n > 0 /\ tech = n) => role = "TECH"
    /\ (n > 0 /\ supervisor = n) => role = "BCBA"
    /\ (tech > 0 /\ supervisor > 0) => (role = "BCBA" <=> supervisor > tech)
    /\ roleReordered = role

\* C16: classifyEmployeeRole gives TECH for no rows and for rows of the
\* technician code only, BCBA for rows of supervisor codes only, and for
\* rows of both kinds BCBA exactly when the supervisor rows are strictly
\* more than the technician rows; the order of the rows does not matter
C16_RoleByCodes ==
    RoleAsked =>
        RoleByCounts(Len(probe.billingRecords),
                     RowsWithCode(probe.billingRecords, {97153}),
                     RowsWithCode(probe.billingRecords, {97155, 97156, 97151}),
                     probe.role, probe.roleReordered)

\* two supervisor rows and a technician row, classified BCBA in two orders
C16_Witness ==
    /\ RoleAsked
    /\ RowsWithCode(probe.billingRecords, {97153}) = 1
    /\ RowsWithCode(probe.billingRecords, {97155, 97156, 97151}) = 2
    /\ probe.reordered # probe.billingRecords
    /\ probe.role = "BCBA"

OpportunitiesAsked == probe.asked /\ probe.kind = "opportunities"

\* a technician who is not HR staff, has payroll hours and a utilization below 90
Eligible(m) ==
    /\ m.role = "TECH"
    /\ ~m.isHRStaff
    /\ m.payrollHours.n > 0
    /\ m.utilizationRate.n * 1 < 90 * m.utilizationRate.d

ExpectedHours(m) == RatSub(Rat(m.payrollHours.n * 90, m.payrollHours.d * 100), m.billableHours)

ExpectedRevenue(m) == RatMul(ExpectedHours(m), m.revenuePerHour)

\* where the opportunity of the i-th metric stands in a list sorted by
\* revenue, largest first, ties in the order of the metrics
ExpectedPlace(metrics, i) ==
    1 + Cardinality({j \in DOMAIN metrics :
            /\ Eligible(metrics[j])
            /\ \/ RatGt(ExpectedRevenue(metrics[j]), ExpectedRevenue(metrics[i]))
               \/ ExpectedRevenue(metrics[j]) = ExpectedRevenue(metrics[i]) /\ j < i})

OneOpportunityEach(metrics, result) ==
    /\ Len(result) = Cardinality({i \in DOMAIN metrics : Eligible(metrics[i])})
    /\ \A i \in DOMAIN metrics : Eligible(metrics[i]) =>
          /\ ExpectedPlace(metrics, i) \in DOMAIN result
          /\ result[ExpectedPlace(metrics, i)].employeeName = metrics[i].name
          /\ result[ExpectedPlace(metrics, i)].potentialAdditionalHours = ExpectedHours(metrics[i])
          /\ result[ExpectedPlace(metrics, i)].potentialAdditionalRevenue = ExpectedRevenue(metrics[i])

\* C17: identifyImprovementOpportunities returns one OpportunityMetric for
\* each employee that is a technician, not HR staff, with payroll hours and
\* a utilization below 90, and none for the others; its hours are
\* payrollHours * 90 / 100 - billableHours, its revenue those hours times
\* revenuePerHour; the list is sorted by that revenue, largest first, ties
\* in the order of the input
C17_OpportunitiesOfTechs ==
    OpportunitiesAsked => OneOpportunityEach(probe.employeeMetrics, probe.result)

\* three metrics of which one is not eligible and the other two tie, the
\* later one by name first in the input
C17_Witness ==
    /\ OpportunitiesAsked
    /\ Len(probe.employeeMetrics) = 3
    /\ Len(probe.result) = 2
    /\ probe.result[1].potentialAdditionalRevenue = probe.result[2].potentialAdditionalRevenue
    /\ probe.result[1].employeeName = <<"T","e","c","h",","," ","H","a","l">>
    /\ probe.result[2].employeeName = <<"T","e","c","h",","," ","A","n","n">>

PerformanceAsked == probe.asked /\ probe.kind = "performance"

\* the canonical names of the rows of both sources
CanonicalNames(billingRecords, payrollRecords) ==
    {applyExactMapping(billingRecords[i].TechName) : i \in DOMAIN billingRecords}
        \cup {applyExactMapping(payrollRecords[i].Name) : i \in DOMAIN payrollRecords}

HasBillingRow(billingRecords, name) ==
    \E i \in DOMAIN billingRecords : applyExactMapping(billingRecords[i].TechName) = name

HasPayrollRow(payrollRecords, name) ==
    \E i \in DOMAIN payrollRecords : applyExactMapping(payrollRecords[i].Name) = name

\* the hours of the payroll rows of every spelling of a canonical name
PayrollHoursOfName(payrollRecords, name) ==
    SumBy(SelectSeq(payrollRecords, LAMBDA r : applyExactMapping(r.Name) = name), HoursOf)

OneMetricPerName(billingRecords, payrollRecords, metrics) ==
    /\ {metrics[i].name : i \in DOMAIN metrics} = CanonicalNames(billingRecords, payrollRecords)
    /\ \A i, j \in DOMAIN metrics : metrics[i].name = metrics[j].name => i = j
    /\ \A i \in DOMAIN metrics :
          /\ metrics[i].isMatched <=> (HasBillingRow(billingRecords, metrics[i].name)
                                        /\ HasPayrollRow(payrollRecords, metrics[i].name))
          /\ metrics[i].payrollHours = PayrollHoursOfName(payrollRecords, metrics[i].name)
    /\ \A i, j \in DOMAIN metrics : i < j => RatGe(metrics[i].revenue, metrics[j].revenue)

\* C18: analyzeEmployeePerformance returns one EmployeeMetric for each
\* exact-mapped name of the billing and payroll rows and no two with the
\* same name; the rows of the payroll spelling and of the mapped spelling
\* go into the same metric; isMatched holds exactly when the name has a
\* billing row and a payroll row; the list is sorted by revenue, largest first
C18_OneMetricPerCanonicalName ==
    PerformanceAsked => OneMetricPerName(probe.billingRecords, probe.payrollRecords, probe.result)

\* a billing row under the mapped spelling and payroll rows under both
\* spellings make one matched metric, behind an employee with more revenue
C18_Witness ==
    /\ PerformanceAsked
    /\ Len(probe.result) = 2
    /\ \E i \in DOMAIN probe.billingRecords : probe.billingRecords[i].TechName = <<"W","i","l","c","o","x",","," ","B","r","e","A","n","n">>
    /\ \E i \in DOMAIN probe.payrollRecords : probe.payrollRecords[i].Name = <<"W","i","l","c","o","x",","," ","B","r","e","a","n","n"," ","R">>
    /\ \E i \in DOMAIN probe.payrollRecords : probe.payrollRecords[i].Name = <<"W","i","l","c","o","x",","," ","B","r","e","A","n","n">>
    /\ probe.result[2].name = <<"W","i","l","c","o","x",","," ","B","r","e","A","n","n">>
    /\ probe.result[2].isMatched
    /\ probe.result[2].payrollHours = Num(60)

UM == bundle.utilizationMetrics

\* the financial metrics the claim lists are all 0
ZeroFinancialMetrics(fm) ==
    \A v \in {fm.totalRevenue, fm.totalPayrollCost, fm.billableStaffCost, fm.hrCost,
              fm.grossProfit, fm.netProfit, fm.profitMargin, fm.profitMarginVsBillableStaff,
              fm.utilizationRate, fm.revenuePerBillableHour, fm.nonBillableCost,
              fm.comprehensiveProfit, fm.comprehensiveProfitMargin} : v = Zero

\* the utilization metrics the claim lists are all 0
ZeroUtilizationMetrics(um) ==
    \A v \in {um.utilizationRate, um.billableHours, um.totalPayrollHours, um.nonBillableHours,
              um.hrHours, um.costOfNonBillableTime} : v = Zero

EmptyRows == billingData.records = <<>> /\ payrollData.records = <<>>

\* C19: with no billing rows and no payroll rows the four computations
\* return without throwing, revenue, costs, gross profit, margins,
\* utilization, revenue per hour, non-billable hours and cost are all 0,
\* and the employee and opportunity lists are empty
C19_EmptyRowsZeroMetrics ==
    (phase = "done" /\ EmptyRows) =>
        /\ bundle.computed
        /\ ZeroFinancialMetrics(FM)
        /\ ZeroUtilizationMetrics(UM)
        /\ bundle.employeeMetrics = <<>>
        /\ bundle.topOpportunities = <<>>

\* C20: over the load cycles the bundle of useDataProcessor is either
\* complete or, when the computation of a cycle fails, the bundle computed
\* before: a complete bundle is never replaced by one without metrics
C20_FailedCycleKeepsBundle == [][bundle.computed => bundle'.computed]_vars

QualityAsked == probe.asked /\ probe.kind = "quality"

\* valid / (valid + invalid) * 100, 0 without records
SourceQuality(validation) ==
    IF validation.validRecords + validation.invalidRecords = 0 THEN Zero
    ELSE Rat(validation.validRecords * 100, validation.validRecords + validation.invalidRecords)

\* k is x rounded to the nearest integer, halves upwards
IsRounded(k, x) == 2 * k * x.d <= 2 * x.n + x.d /\ 2 * x.n + x.d < 2 * (k + 1) * x.d

MatchingIssues(result) == SelectSeq(result.issues, LAMBDA issue : issue.category = "matching")

QualityAsComputed(billingValidation, payrollValidation, rate, result) ==
    /\ IsRounded(result.billingDataQuality, SourceQuality(billingValidation))
    /\ IsRounded(result.payrollDataQuality, SourceQuality(payrollValidation))
    /\ IsRounded(result.overallScore,
                 RatDiv(RatAdd(RatAdd(SourceQuality(billingValidation),
                                      SourceQuality(payrollValidation)), rate), Num(3)))
    /\ Len(MatchingIssues(result)) = (IF rate.n < 90 * rate.d THEN 1 ELSE 0)
    /\ \A i \in DOMAIN MatchingIssues(result) :
          MatchingIssues(result)[i].impact = (IF rate.n < 70 * rate.d THEN "high" ELSE "medium")
    /\ (rate.n >= 0 /\ rate.n <= 100 * rate.d) => result.overallScore \in 0..100

\* C21: calculateDataQuality takes each source's quality as validRecords /
\* (validRecords + invalidRecords) * 100, 0 for a source without records,
\* the overall score as the rounded mean of the two qualities and the
\* matching rate, and lists a matching issue exactly for a rate below 90,
\* of impact high below 70 and medium otherwise; a rate in 0..100 gives an
\* overall score in 0..100
C21_DataQualityScores ==
    QualityAsked => QualityAsComputed(probe.billingValidation, probe.payrollValidation,
                                      probe.employeeMatchingRate, probe.result)

\* one of three billing records invalid, no payroll record, a rate of 69.5:
\* a matching issue of high impact and an overall score of 45
C21_Witness ==
    /\ QualityAsked
    /\ probe.billingValidation.validRecords = 2
    /\ probe.billingValidation.invalidRecords = 1
    /\ probe.payrollValidation.validRecords + probe.payrollValidation.invalidRecords = 0
    /\ probe.employeeMatchingRate = Rat(139, 2)
    /\ probe.result.overallScore = 45
    /\ \E i \in DOMAIN probe.result.issues :
          probe.result.issues[i].category = "matching" /\ probe.result.issues[i].impact = "high"

\* the employee of the canonical name has a metric with isMatched
MatchedInMetrics(name, metrics) ==
    \E i \in DOMAIN metrics : metrics[i].name = applyExactMapping(name) /\ metrics[i].isMatched

\* C22: in a bundle of the pipeline no name is listed as unmatched while
\* the metric of its canonical employee has isMatched: a payroll name and
\* the billing name the mapping table gives it, each present in its own
\* source, are not reported unmatched
C22_UnmatchedHaveNoCounterpart ==
    bundle.computed =>
        \A i \in DOMAIN bundle.unmatchedEmployees :
            ~MatchedInMetrics(bundle.unmatchedEmployees[i].name, bundle.employeeMetrics)

\* a call of loadData finishes in this step
Finishes(c) == loads.calls[c] # "finished" /\ loads'.calls[c] = "finished"

\* C23: over any sequence of loadData calls, a retry started while an
\* earlier call still awaits a file included, the bundle is never computed
\* from the billing data of one call and the payroll data of another, and
\* when a call finishes isLoading is false and both published data sets are
\* the ones of that call
C23_BundleOfOneCycle ==
    [][ /\ bundle'.computed => loads'.billingCycle = loads'.payrollCycle
        /\ \A c \in 1..MaxLoads :
              Finishes(c) => /\ ~loads'.isLoading
                             /\ loads'.billingCycle = c
                             /\ loads'.payrollCycle = c ]_vars

\* the part about the bundle alone
C23a_BundleNeverMixed == bundle.computed => loads.billingCycle = loads.payrollCycle

\* the part about the end of a call alone
C23b_FinishPublishesOwnData ==
    [][ \A c \in 1..MaxLoads :
          Finishes(c) => loads'.billingCycle = c /\ loads'.payrollCycle = c ]_vars

\* isLoading is false at the end of a call, and may be false while a later
\* call is still awaiting a file
C23c_NotLoadingMeansNoCallInFlight ==
    ~loads.isLoading =>
        \A c \in 1..MaxLoads : loads.calls[c] \in {"notStarted", "finished"}

RecordsAsked == probe.asked /\ probe.kind = "records"

\* the records whose session date is inside the billing window
BillingRecordsInWindow(records) == SelectSeq(records, InBillingWindow)

\* the records whose check date is inside the payroll window
PayrollRecordsInWindow(records) == SelectSeq(records, InPayrollWindow)

\* C24: analyzeEmployeePerformance returns what it returns for the records
\* inside their windows alone: a record dated outside its window changes no
\* field of an EmployeeMetric and creates no EmployeeMetric
C24_OutsideWindowIgnored ==
    RecordsAsked =>
        probe.result = analyzeEmployeePerformance(BillingDataWith(BillingRecordsInWindow(probe.billingRecords)),
                                                  PayrollDataWith(PayrollRecordsInWindow(probe.payrollRecords)))

\* what the pipeline hands over: processBillingCsv and processPayrollExcel
\* have dropped the rows outside the windows before the records are stored
C24a_PipelineRecordsInsideWindows ==
    /\ BillingRecordsInWindow(billingData.records) = billingData.records
    /\ PayrollRecordsInWindow(payrollData.records) = payrollData.records

\* the row belongs to an employee of the HR staff list, by canonical name
IsCanonicalHRRecord(record) == isHRStaff(applyExactMapping(record.Name))

IsCanonicalBillableRecord(record) == ~isHRStaff(applyExactMapping(record.Name))

\* the EmployeeMetric of the row's employee carries isHRStaff
MetricSaysHR(record, employeeMetrics) ==
    \E i \in DOMAIN employeeMetrics :
        /\ employeeMetrics[i].name = applyExactMapping(record.Name)
        /\ employeeMetrics[i].isHRStaff

\* C25: the payroll rows of the quarter are split on the canonical name:
\* hrCost sums the rows whose canonical name is on the HR staff list,
\* billableStaffCost the others, and a row is an HR row exactly when the
\* EmployeeMetric of its employee has isHRStaff
C25_HRSplitOnCanonicalName ==
    bundle.computed =>
        /\ FM.hrCost = SumBy(SelectSeq(filterQ2PayrollRecords(payrollData.records), IsCanonicalHRRecord), ExpensesOf)
        /\ FM.billableStaffCost =
               SumBy(SelectSeq(filterQ2PayrollRecords(payrollData.records), IsCanonicalBillableRecord), ExpensesOf)
        /\ \A i \in DOMAIN payrollData.records :
               IsHRRecord(payrollData.records[i]) <=> MetricSaysHR(payrollData.records[i], bundle.employeeMetrics)

IsBillableMetric(metric) == ~metric.isHRStaff

NonBillableOfMetric(metric) == RatMax(Zero, RatSub(metric.payrollHours, metric.billableHours))

\* max(0, payrollHours - billableHours) of each billable employee, summed
NonBillablePerEmployee(employeeMetrics) ==
    SumBy(SelectSeq(employeeMetrics, IsBillableMetric), NonBillableOfMetric)

\* C26: nonBillableHours of the utilization metrics is the sum over the
\* billable employees of max(0, payrollHours - billableHours), floored for
\* each employee, and costOfNonBillableTime is that sum at the Technician
\* hourly rate: an employee billed beyond their payroll hours takes nothing
\* from the others
C26_NonBillableFlooredPerEmployee ==
    bundle.computed =>
        /\ UM.nonBillableHours = NonBillablePerEmployee(bundle.employeeMetrics)
        /\ UM.costOfNonBillableTime =
               RatMul(NonBillablePerEmployee(bundle.employeeMetrics), Num(TECH_hourlyRate))

\* the cost is the reported hours at the flat rate
C26a_CostAtFlatRate ==
    bundle.computed => UM.costOfNonBillableTime = RatMul(UM.nonBillableHours, Num(TECH_hourlyRate))

\* C27: the billable hours behind utilizationRate and revenuePerBillableHour
\* are the hours of the billing rows dated March 31 2025 to Q2_BILLING_END,
\* bounds included, the rows isValidBillingDate accepts, and of no other row
C27_BillableHoursOfBillingWindow ==
    bundle.computed =>
        /\ UM.billableHours = SumBy(WindowBilling, HoursOf)
        /\ FM.revenuePerBillableHour = RatioOrZero(FM.totalRevenue, SumBy(WindowBilling, HoursOf))

\* every stored billing row is one isValidBillingDate accepts
C27a_StoredRowsAccepted ==
    \A i \in DOMAIN billingData.records :
        isValidBillingDate(parseFlexibleDate(billingData.records[i].SessionDate))

FilterAsked == probe.asked /\ probe.kind = "filter"

\* filterQ2PayrollRecords keeps the record when it is handed over alone
KeptAlone(record) == filterQ2PayrollRecords(<<record>>) # <<>>

KeptAmong(record, kept) == \E i \in DOMAIN kept : kept[i] = record

\* C28: filterQ2PayrollRecords keeps a record or not by the record's own
\* Check Date: the records kept of a list are those kept when handed over
\* alone, so a Void record in the list changes nothing for the others
C28_FilterDecidesRowByRow ==
    FilterAsked =>
        \A i \in DOMAIN probe.payrollRecords :
            KeptAmong(probe.payrollRecords[i], probe.result) <=> KeptAlone(probe.payrollRecords[i])

\* C29: every opportunity identifyImprovementOpportunities returns has
\* priority high or medium, never low, and potentialAdditionalHours > 0
C29_OpportunitiesHighOrMedium ==
    OpportunitiesAsked =>
        \A i \in DOMAIN probe.result :
            /\ probe.result[i].priority \in {"high", "medium"}
            /\ RatGt(probe.result[i].potentialAdditionalHours, Zero)

\* a result holding an opportunity of each of the two priorities, for
\* metrics that also hold an employee at or above the benchmark
C29_Witness ==
    /\ OpportunitiesAsked
    /\ \E i \in DOMAIN probe.result : probe.result[i].priority = "high"
    /\ \E i \in DOMAIN probe.result : probe.result[i].priority = "medium"
    /\ \E i \in DOMAIN probe.employeeMetrics :
           RatGe(probe.employeeMetrics[i].utilizationRate, Num(UTILIZATION_BENCHMARK))

\* the call returned, at least one name was handed over and no name of
\* either source is left unmatched
AllNamesMatched ==
    /\ ValidateAsked
    /\ ~probe.result.threw
    /\ probe.billingNames \o probe.payrollNames # <<>>
    /\ probe.result.unmatchedBilling = <<>>
    /\ probe.result.unmatchedPayroll = <<>>

\* C30: the matchingRate validateEmployeeMatching returns is an integer of
\* 0..100, and it is 100 when there is at least one name and both
\* unmatchedBilling and unmatchedPayroll are empty
C30_MatchingRateFullWhenAllMatched ==
    /\ (ValidateAsked /\ ~probe.result.threw) => probe.result.matchingRate \in 0..100
    /\ AllNamesMatched => probe.result.matchingRate = 100

\* the rate is an integer of 0..100 whenever the call returns
C30a_MatchingRateInRange ==
    (ValidateAsked /\ ~probe.result.threw) => probe.result.matchingRate \in 0..100
====
